---- MODULE Spec2Model ----
(***************************************************************************)
(* FIRE calculator: time-series evaluation (lib/timeseries), plan          *)
(* aggregation (lib/components) and the net-worth projection               *)
(* (lib/projection).                                                       *)
(*                                                                         *)
(* JavaScript numbers are modelled as exact rationals <<n, d>> with d > 0  *)
(* in lowest terms, so that growth rates such as 0.10 and Math.pow keep    *)
(* their arithmetic meaning.  Years are integers.                          *)
(***************************************************************************)
EXTENDS Integers, Sequences, FiniteSets, TLC

VARIABLES
  plan,      \* the FinancialPlan {baseYear, components} handed to the library
  call,      \* the library call made: its arguments and its return value
  pc,        \* "idle", inside the loop of aggregateByYear or projectNetWorth
             \* ("aggregate", "project"), or "done" after its return
  params,    \* startYear, endYear (and ProjectionParams) of the running call
  year,      \* the loop variable year
  netWorth,  \* the running netWorth of projectNetWorth
  results,   \* the results array being filled
  state,     \* the UIState held by the state manager (let state)
  formListeners,     \* the listeners of onFormChange, in insertion order
  resultsListeners,  \* the listeners of onResultsChange, in insertion order
  notified,  \* the listener calls made by the last operation, in order
  unsubscribed,  \* the unsubscribe functions that have been called
  steps      \* the number of state-manager operations made so far

\* the state manager of the UI
uiVars ==
  <<state, formListeners, resultsListeners, notified, unsubscribed, steps>>

vars == <<plan, call, pc, params, year, netWorth, results, state,
          formListeners, resultsListeners, notified, unsubscribed, steps>>

(***************************************************************************)
(* Bounds of the model.                                                    *)
(***************************************************************************)
MaxSegments == 2
MaxComponents == 3
MaxSpan == 7
MaxProjYears == 3
MaxLaterCalls == 2
\* state-manager operations made in one behaviour
MaxOperations == 3

(***************************************************************************)
(* Rational arithmetic (the model of the number type).                     *)
(***************************************************************************)
Abs(n) == IF n < 0 THEN -n ELSE n

RECURSIVE GCD(_, _)
GCD(a, b) == IF b = 0 THEN a ELSE GCD(b, a % b)

Norm(n, d) ==
  LET g == GCD(Abs(n), Abs(d))
      s == IF d < 0 THEN -1 ELSE 1
  IN  <<s * (n \div g), s * (d \div g)>>

R(n) == <<n, 1>>
Q(n, d) == Norm(n, d)

RAdd(a, b) ==
  LET g == GCD(a[2], b[2])
      l == (a[2] \div g) * b[2]
  IN  Norm(a[1] * (l \div a[2]) + b[1] * (l \div b[2]), l)

RNeg(a) == <<-a[1], a[2]>>
RSub(a, b) == RAdd(a, RNeg(b))

\* a * b, cancelling common factors before multiplying
RMul(a, b) ==
  LET g1 == GCD(Abs(a[1]), b[2])
      g2 == GCD(Abs(b[1]), a[2])
      h1 == IF g1 = 0 THEN 1 ELSE g1
      h2 == IF g2 = 0 THEN 1 ELSE g2
  IN  Norm((a[1] \div h1) * (b[1] \div h2), (a[2] \div h2) * (b[2] \div h1))

RInv(a) == Norm(a[2], a[1])

RECURSIVE RPowNat(_, _)
RPowNat(a, k) == IF k = 0 THEN R(1) ELSE RMul(a, RPowNat(a, k - 1))

\* Math.pow(a, k) for an integer exponent k and a base a # 0 when k < 0
RPow(a, k) == IF k >= 0 THEN RPowNat(a, k) ELSE RInv(RPowNat(a, -k))

RLt(a, b) == a[1] * b[2] < b[1] * a[2]

(***************************************************************************)
(* lib/timeseries: series constructors                                     *)
(***************************************************************************)
constant(value) == [type |-> "constant", value |-> value]

linear(startValue, yearlyIncrement) ==
  [type |-> "linear", startValue |-> startValue,
   yearlyIncrement |-> yearlyIncrement]

ratio(startValue, yearlyGrowthRate) ==
  [type |-> "ratio", startValue |-> startValue,
   yearlyGrowthRate |-> yearlyGrowthRate]

composite(segments) == [type |-> "composite", segments |-> segments]

segment(series, startYear, endYear) ==
  [series |-> series, startYear |-> startYear, endYear |-> endYear]

(***************************************************************************)
(* lib/timeseries: evaluate                                                *)
(***************************************************************************)
\* mutant: the interval is closed at endYear
segmentContainsInclusive(seg, y) == y >= seg.startYear /\ y <= seg.endYear

\* the test of the composite loop: year >= startYear && year < endYear
segmentContains(seg, y) == y >= seg.startYear /\ y < seg.endYear

\* mutant: the nested series keeps the outer base year
segmentBaseYearOuter(seg, baseYear) == baseYear

\* the base year handed to the nested series: the segment's own startYear
segmentBaseYear(seg, baseYear) == seg.startYear

\* mutant: the scan does not stop at the first match, the last match wins
RECURSIVE findSegmentLast(_, _, _)
findSegmentLast(segments, i, y) ==
  IF i > Len(segments) THEN 0
  ELSE LET later == findSegmentLast(segments, i + 1, y)
       IN  IF later # 0 THEN later
           ELSE IF segmentContains(segments[i], y) THEN i ELSE 0

\* for (const segment of series.segments): index of the segment the loop
\* returns from, scanning from position i; 0 when the loop falls through
RECURSIVE findSegment(_, _, _)
findSegment(segments, i, y) ==
  IF i > Len(segments) THEN 0
  ELSE IF segmentContains(segments[i], y) THEN i
  ELSE findSegment(segments, i + 1, y)

\* mutant: a constant is worth nothing before the base year
constantValueFromBaseYear(series, elapsed) ==
  IF elapsed < 0 THEN R(0) ELSE series.value

\* case 'constant': return series.value
constantValue(series, elapsed) == series.value

\* mutant: the start value is kept before the base year
linearValueClamped(series, elapsed) ==
  IF elapsed < 0 THEN series.startValue
  ELSE RAdd(series.startValue, RMul(R(elapsed), series.yearlyIncrement))

\* case 'linear': series.startValue + elapsed * series.yearlyIncrement
linearValue(series, elapsed) ==
  RAdd(series.startValue, RMul(R(elapsed), series.yearlyIncrement))

\* mutant: simple interest, startValue * (1 + elapsed * rate)
ratioValueSimple(series, elapsed) ==
  RMul(series.startValue,
       RAdd(R(1), RMul(R(elapsed), series.yearlyGrowthRate)))

\* case 'ratio': series.startValue * Math.pow(1 + series.yearlyGrowthRate, elapsed)
ratioValue(series, elapsed) ==
  RMul(series.startValue, RPow(RAdd(R(1), series.yearlyGrowthRate), elapsed))

RECURSIVE evaluate(_, _, _)
evaluate(series, y, baseYear) ==
  LET elapsed == y - baseYear
  IN  CASE series.type = "constant" -> constantValue(series, elapsed)
        [] series.type = "linear" -> linearValue(series, elapsed)
        [] series.type = "ratio" -> ratioValue(series, elapsed)
        [] series.type = "composite" ->
             LET i == findSegment(series.segments, 1, y)
             IN  IF i = 0 THEN R(0)
                 ELSE evaluate(series.segments[i].series, y,
                               segmentBaseYear(series.segments[i], baseYear))

(***************************************************************************)
(* Inputs                                                                  *)
(***************************************************************************)
BaseYears == {2025, 2027}

EvalYears == 2024 .. (2024 + MaxSpan)

SeqsUpTo(S, n) == UNION {[1..k -> S] : k \in 0..n}

LeafPool ==
  { constant(R(80000)), linear(R(50000), R(5000)), ratio(R(80000), Q(1, 10)) }

SegPool ==
  { segment(s, a, b) : s \in LeafPool, a \in {2025, 2027}, b \in {2027, 2029, 2030} }

\* the composites of the unit tests of evaluate
TestSegmentsA ==
  composite(<<segment(constant(R(80000)), 2025, 2029),
              segment(constant(R(120000)), 2030, 2040)>>)

TestSegmentsB == composite(<<segment(constant(R(80000)), 2025, 2030)>>)

TestNested ==
  composite(<<segment(composite(<<segment(linear(R(100), R(10)), 2026, 2028),
                                  segment(constant(R(200)), 2028, 2029)>>),
                      2025, 2029),
              segment(constant(R(300)), 2030, 2035)>>)

\* leaf series of the unit tests with zero and negative values and rates
SignedLeafPool ==
  { constant(R(0)), constant(R(-5000)),
    linear(R(50000), R(-5000)), linear(R(80000), R(0)),
    ratio(R(80000), Q(-1, 10)), ratio(R(80000), R(0)),
    ratio(R(100000), Q(1, 10)) }

SeriesPool ==
  LeafPool \cup SignedLeafPool
    \cup {composite(segs) : segs \in SeqsUpTo(SegPool, MaxSegments)}
    \cup {TestSegmentsA, TestSegmentsB, TestNested}

(***************************************************************************)
(* Initial state: an empty plan, no call made yet.                         *)
(***************************************************************************)
NoParams == [startYear |-> 0, endYear |-> 0]

\* no state manager has been created
NoStateManager ==
  /\ state = [isStale |-> FALSE]
  /\ formListeners = <<>>
  /\ resultsListeners = <<>>
  /\ notified = <<>>
  /\ unsubscribed = {}
  /\ steps = 0

Init ==
  /\ plan \in [baseYear : BaseYears, components : {<<>>}]
  /\ call = [fn |-> "none"]
  /\ pc = "idle"
  /\ params = NoParams
  /\ year = 0
  /\ netWorth = R(0)
  /\ results = <<>>
  /\ NoStateManager

(***************************************************************************)
(* A call of evaluate(series, year, baseYear).  The library keeps no state  *)
(* between calls, so a behaviour makes one call and observes its result.   *)
(***************************************************************************)
Evaluate ==
  /\ pc = "idle"
  /\ call.fn = "none"
  /\ \E s \in SeriesPool, y \in EvalYears, b \in BaseYears :
       call' = [fn |-> "evaluate", series |-> s, year |-> y, baseYear |-> b,
                result |-> evaluate(s, y, b)]
  /\ UNCHANGED <<plan, pc, params, year, netWorth, results>>
  /\ UNCHANGED uiVars

NextEval == Evaluate

SpecEval == Init /\ [][NextEval]_vars

(***************************************************************************)
(* lib/components: plans and aggregation                                   *)
(***************************************************************************)
component(name, category, series) ==
  [name |-> name, category |-> category, series |-> series]

ComponentCategory == {"income", "spending", "investment"}

\* mutant: the category filter lets every component through
matchesCategoryAny(c, category) == TRUE

\* .filter(c => c.category === category)
matchesCategory(c, category) == c.category = category

\* .reduce((sum, c) => sum + evaluate(c.series, year, baseYear), 0)
RECURSIVE reduceSum(_, _, _)
reduceSum(cs, y, baseYear) ==
  IF cs = <<>> THEN R(0)
  ELSE RAdd(reduceSum(SubSeq(cs, 1, Len(cs) - 1), y, baseYear),
            evaluate(cs[Len(cs)].series, y, baseYear))

\* mutant: find instead of filter, only the first matching component counts
totalByCategoryFirstOnly(p, category, y) ==
  LET cs == SelectSeq(p.components, LAMBDA c : matchesCategory(c, category))
  IN  IF cs = <<>> THEN R(0) ELSE evaluate(cs[1].series, y, p.baseYear)

totalByCategory(p, category, y) ==
  reduceSum(SelectSeq(p.components, LAMBDA c : matchesCategory(c, category)),
            y, p.baseYear)

\* mutant: investment contributions are taken out of the cash flow
netCashFlowAfterInvestment(p, y) ==
  RSub(RSub(totalByCategory(p, "income", y), totalByCategory(p, "spending", y)),
       totalByCategory(p, "investment", y))

netCashFlow(p, y) ==
  LET income == totalByCategory(p, "income", y)
      spending == totalByCategory(p, "spending", y)
  IN  RSub(income, spending)

\* mutant: the last year of the range is included
aggregateLoopTestInclusive(y, endYear) == y <= endYear

\* the test of the for loop of aggregateByYear: year < endYear
aggregateLoopTest(y, endYear) == y < endYear

\* the record pushed by aggregateByYear
\* mutant: the investment total is subtracted from the net cash flow
YearlyBreakdownAfterInvestment(p, y) ==
  LET income == totalByCategory(p, "income", y)
      spending == totalByCategory(p, "spending", y)
      investment == totalByCategory(p, "investment", y)
  IN  [year |-> y, income |-> income, spending |-> spending,
       investment |-> investment,
       netCashFlow |-> RSub(RSub(income, spending), investment)]

YearlyBreakdown(p, y) ==
  LET income == totalByCategory(p, "income", y)
      spending == totalByCategory(p, "spending", y)
      investment == totalByCategory(p, "investment", y)
  IN  [year |-> y, income |-> income, spending |-> spending,
       investment |-> investment, netCashFlow |-> RSub(income, spending)]

ComponentPool ==
  { component("Salary", "income", constant(R(100000))),
    component("Expenses", "spending", constant(R(50000))),
    component("401k", "investment", constant(R(20000))),
    component("Salary", "income", linear(R(40000), R(2000))),
    component("Rent", "spending",
              composite(<<segment(constant(R(24000)), 2026, 2028)>>)),
    component("Bonus", "investment", ratio(R(10000), Q(1, 10))) }

PlanYears == 2024 .. (2024 + MaxSpan)

\* one start year, after the base year 2025 and before the base year 2027
StartYears == {2026}

EndYears(startYear) == (startYear - 1) .. (startYear + MaxProjYears)

\* plan(baseYear, [...components, c]): a plan with one more component
PlanAdd ==
  /\ pc = "idle"
  /\ call.fn = "none"
  /\ Len(plan.components) < MaxComponents
  /\ \E c \in ComponentPool :
       plan' = [plan EXCEPT !.components = Append(@, c)]
  /\ UNCHANGED <<call, pc, params, year, netWorth, results>>
  /\ UNCHANGED uiVars

TotalByCategory ==
  /\ pc = "idle"
  /\ call.fn = "none"
  /\ \E category \in ComponentCategory, y \in PlanYears :
       call' = [fn |-> "totalByCategory", category |-> category, year |-> y,
                result |-> totalByCategory(plan, category, y)]
  /\ UNCHANGED <<plan, pc, params, year, netWorth, results>>
  /\ UNCHANGED uiVars

NetCashFlow ==
  /\ pc = "idle"
  /\ call.fn = "none"
  /\ \E y \in PlanYears :
       call' = [fn |-> "netCashFlow", year |-> y,
                result |-> netCashFlow(plan, y)]
  /\ UNCHANGED <<plan, pc, params, year, netWorth, results>>
  /\ UNCHANGED uiVars

\* aggregateByYear(plan, startYear, endYear): entry, one loop iteration, return
AggregateCall ==
  /\ pc = "idle"
  /\ call.fn = "none"
  /\ \E s \in StartYears : \E e \in EndYears(s) :
       /\ params' = [startYear |-> s, endYear |-> e]
       /\ year' = s
  /\ results' = <<>>
  /\ pc' = "aggregate"
  /\ UNCHANGED <<plan, call, netWorth>>
  /\ UNCHANGED uiVars

AggregateIter ==
  /\ pc = "aggregate"
  /\ aggregateLoopTest(year, params.endYear)
  /\ results' = Append(results, YearlyBreakdown(plan, year))
  /\ year' = year + 1
  /\ UNCHANGED <<plan, call, pc, params, netWorth>>
  /\ UNCHANGED uiVars

AggregateReturn ==
  /\ pc = "aggregate"
  /\ ~aggregateLoopTest(year, params.endYear)
  /\ call' = [fn |-> "aggregateByYear", result |-> results]
  /\ pc' = "done"
  /\ UNCHANGED <<plan, params, year, netWorth, results>>
  /\ UNCHANGED uiVars

NextPlan ==
  \/ PlanAdd
  \/ TotalByCategory
  \/ NetCashFlow
  \/ AggregateCall
  \/ AggregateIter
  \/ AggregateReturn

SpecPlan == Init /\ [][NextPlan]_vars

(***************************************************************************)
(* lib/projection: projectNetWorth                                         *)
(***************************************************************************)
\* mutant: the last year of the range is included
projectLoopTestInclusive(y, endYear) == y <= endYear

\* the test of the for loop of projectNetWorth: year < endYear
projectLoopTest(y, endYear) == y < endYear

\* mutant: returns are earned on the previous net worth only
investedAmountWithoutContribution(nw, investment) == nw

investedAmount(nw, investment) == RAdd(nw, investment)

\* mutant: no return is earned
afterReturnsNone(invested, investmentReturnRate) == invested

\* mutant: returns are suppressed while the invested amount is negative
afterReturnsGated(invested, investmentReturnRate) ==
  IF RLt(invested, R(0)) THEN invested
  ELSE RMul(invested, RAdd(R(1), investmentReturnRate))

afterReturns(invested, investmentReturnRate) ==
  RMul(invested, RAdd(R(1), investmentReturnRate))

\* mutant: spending is not subtracted
remainingCashFlowWithoutSpending(income, spending, investment) ==
  RSub(income, investment)

\* mutant: the contribution is not taken out of the cash flow
remainingCashFlowWithoutInvestment(income, spending, investment) ==
  RSub(income, spending)

remainingCashFlow(income, spending, investment) ==
  RSub(RSub(income, spending), investment)

\* the net worth at the end of year y, from the net worth nw before it
nextNetWorth(p, nw, y, investmentReturnRate) ==
  LET income == totalByCategory(p, "income", y)
      spending == totalByCategory(p, "spending", y)
      investment == totalByCategory(p, "investment", y)
  IN  RAdd(afterReturns(investedAmount(nw, investment), investmentReturnRate),
           remainingCashFlow(income, spending, investment))

\* the record pushed by projectNetWorth
YearlyProjection(p, nw, y) ==
  [year |-> y,
   income |-> totalByCategory(p, "income", y),
   spending |-> totalByCategory(p, "spending", y),
   investment |-> totalByCategory(p, "investment", y),
   netWorth |-> nw]

\* the plan of the unit test "handles investment contributions with returns"
TestPlanComponents ==
  << component("Salary", "income", constant(R(100000))),
     component("Expenses", "spending", constant(R(50000))),
     component("401k", "investment", constant(R(20000))) >>

InitialNetWorths == {R(0), R(50000)}

ReturnRates == {R(0), Q(1, 10)}

\* projectNetWorth(params): entry, one loop iteration, return
ProjectCall ==
  /\ pc = "idle"
  /\ call.fn = "none"
  /\ \E n \in InitialNetWorths, s \in StartYears, r \in ReturnRates :
       \E e \in EndYears(s) :
         /\ params' = [initialNetWorth |-> n, startYear |-> s, endYear |-> e,
                       investmentReturnRate |-> r]
         /\ netWorth' = n
         /\ year' = s
  /\ results' = <<>>
  /\ pc' = "project"
  /\ UNCHANGED <<plan, call>>
  /\ UNCHANGED uiVars

ProjectIter ==
  /\ pc = "project"
  /\ projectLoopTest(year, params.endYear)
  /\ LET nw == nextNetWorth(plan, netWorth, year, params.investmentReturnRate)
     IN  /\ netWorth' = nw
         /\ results' = Append(results, YearlyProjection(plan, nw, year))
  /\ year' = year + 1
  /\ UNCHANGED <<plan, call, pc, params>>
  /\ UNCHANGED uiVars

ProjectReturn ==
  /\ pc = "project"
  /\ ~projectLoopTest(year, params.endYear)
  /\ call' = [fn |-> "projectNetWorth", params |-> params, result |-> results,
              later |-> 0]
  /\ pc' = "done"
  /\ UNCHANGED <<plan, params, year, netWorth, results>>
  /\ UNCHANGED uiVars

NextProj ==
  \/ PlanAdd
  \/ ProjectCall
  \/ ProjectIter
  \/ ProjectReturn

SpecProj == Init /\ [][NextProj]_vars

(***************************************************************************)
(* Several calls of projectNetWorth in one behaviour.  The first call that *)
(* returns is kept in `call` as the reference; later calls run with any    *)
(* arguments and leave their records in `results`; call.later counts them. *)
(***************************************************************************)
\* plans the calls are made on
CallPlans ==
  { <<>>, TestPlanComponents,
    << component("Salary", "income", linear(R(40000), R(2000))),
       component("Expenses", "spending", constant(R(50000))) >> }

InitCalls ==
  /\ plan \in [baseYear : BaseYears, components : CallPlans]
  /\ call = [fn |-> "none"]
  /\ pc = "idle"
  /\ params = NoParams
  /\ year = 0
  /\ netWorth = R(0)
  /\ results = <<>>
  /\ NoStateManager

\* mutant: the record list is shared between calls
localResultsShared(previous) == previous

\* const results: YearlyProjection[] = [] is a local of each call
localResults(previous) == <<>>

\* mutant: the running net worth is shared between calls
localNetWorthShared(previous, initialNetWorth) == previous

\* let netWorth = initialNetWorth is a local of each call
localNetWorth(previous, initialNetWorth) == initialNetWorth

\* entry of a later call, after an earlier one has returned
ProjectCallAgain ==
  /\ pc = "done"
  /\ call.fn = "projectNetWorth"
  /\ call.later < MaxLaterCalls
  /\ \E n \in InitialNetWorths, s \in StartYears, r \in ReturnRates :
       \E e \in EndYears(s) :
         /\ params' = [initialNetWorth |-> n, startYear |-> s, endYear |-> e,
                       investmentReturnRate |-> r]
         /\ netWorth' = localNetWorth(netWorth, n)
         /\ year' = s
  /\ results' = localResults(results)
  /\ pc' = "project"
  /\ UNCHANGED <<plan, call>>
  /\ UNCHANGED uiVars

\* return of a later call: the reference call is kept for comparison
ProjectReturnAgain ==
  /\ pc = "project"
  /\ call.fn = "projectNetWorth"
  /\ ~projectLoopTest(year, params.endYear)
  /\ pc' = "done"
  /\ call' = [call EXCEPT !.later = @ + 1]
  /\ UNCHANGED <<plan, params, year, netWorth, results>>
  /\ UNCHANGED uiVars

NextCalls ==
  \/ ProjectCall
  \/ ProjectIter
  \/ ProjectReturn
  \/ ProjectCallAgain
  \/ ProjectReturnAgain

SpecCalls == InitCalls /\ [][NextCalls]_vars

(***************************************************************************)
(* Properties of evaluate on a Composite                                   *)
(***************************************************************************)
IsEvalComposite == call.fn = "evaluate" /\ call.series.type = "composite"

\* positions of the segments whose half-open interval holds the year
Holding(segments, y) ==
  {i \in 1..Len(segments) :
     segments[i].startYear <= y /\ y < segments[i].endYear}

Least(S) == CHOOSE i \in S : \A j \in S : i <= j

\* value of one segment taken alone, with its own start as base year
valueOf(seg, y) == evaluate(seg.series, y, seg.startYear)

SegmentSelectedAtEndYear ==
  call.fn = "evaluate" =>
    /\ (call.series = TestSegmentsA /\ call.year = 2029)
          => call.result = R(80000)
    /\ (call.series = TestSegmentsA /\ call.year = 2030)
          => call.result = R(120000)
    /\ (call.series = TestSegmentsB /\ call.year = 2030)
          => call.result = R(80000)
    /\ (call.series = TestSegmentsB /\ call.year = 2035)
          => call.result = R(0)

\* the innermost selected segment of a composite, following nested
\* composites; a segment with startYear > endYear stands for "none"
NoSegment == segment(constant(R(0)), 1, 0)

RECURSIVE innermost(_, _)
innermost(series, y) ==
  LET M == Holding(series.segments, y)
  IN  IF M = {} THEN NoSegment
      ELSE LET seg == series.segments[Least(M)]
           IN  IF seg.series.type = "composite"
               THEN innermost(seg.series, y)
               ELSE seg

\* C4: the nested series of the selected segment is evaluated with
\* elapsed = year - segment.startYear at every depth, so the value of a
\* Composite is the same for every baseYear argument, and a Linear or Ratio
\* segment yields its startValue in the segment's startYear.
CompositeRebased ==
  IsEvalComposite =>
    LET seg == innermost(call.series, call.year)
        e == call.year - seg.startYear
        s == seg.series
    IN  /\ \A b \in BaseYears \cup EvalYears :
             evaluate(call.series, call.year, b) = call.result
        /\ (seg # NoSegment /\ s.type = "linear")
             => call.result = RAdd(s.startValue, RMul(R(e), s.yearlyIncrement))
        /\ (seg # NoSegment /\ s.type = "ratio")
             => call.result =
                  RMul(s.startValue, RPow(RAdd(R(1), s.yearlyGrowthRate), e))
        /\ (seg # NoSegment /\ s.type \in {"linear", "ratio"} /\ e = 0)
             => call.result = s.startValue

\* C4 witness: a growing segment that starts after the base year of the
\* call, read two years into the segment.
CompositeRebasedWitness ==
  /\ IsEvalComposite
  /\ LET seg == innermost(call.series, call.year)
     IN  /\ seg # NoSegment
         /\ seg.series.type \in {"linear", "ratio"}
         /\ seg.startYear > call.baseYear
         /\ call.year = seg.startYear + 2
         /\ call.result # seg.series.startValue

\* C5: when several segments hold the year, the result is the value of the
\* first of them in list order; a later overlapping segment is neither
\* substituted nor added.
OverlapFirstWins ==
  IsEvalComposite =>
    LET segs == call.series.segments
        M == Holding(segs, call.year)
    IN  Cardinality(M) >= 2 =>
          /\ call.result = valueOf(segs[Least(M)], call.year)
          /\ \A j \in M \ {Least(M)} :
               /\ valueOf(segs[j], call.year) # valueOf(segs[Least(M)], call.year)
                    => call.result # valueOf(segs[j], call.year)
               /\ valueOf(segs[j], call.year) # R(0)
                    => call.result # RAdd(valueOf(segs[Least(M)], call.year),
                                          valueOf(segs[j], call.year))

\* C5 witness: two segments hold the year, the later one in the list starts
\* earlier and would give another value.
OverlapFirstWinsWitness ==
  /\ IsEvalComposite
  /\ LET segs == call.series.segments
     IN  /\ Holding(segs, call.year) = {1, 2}
         /\ segs[2].startYear < segs[1].startYear
         /\ valueOf(segs[2], call.year) # valueOf(segs[1], call.year)
         /\ call.result = valueOf(segs[1], call.year)

(***************************************************************************)
(* Properties of the plan aggregator                                       *)
(***************************************************************************)
\* positions of the components of a category
InCategory(p, category) ==
  {i \in 1..Len(p.components) : p.components[i].category = category}

\* sum of the components at the positions I, each evaluated at year y with
\* the plan's base year
RECURSIVE SumOver(_, _, _)
SumOver(I, p, y) ==
  IF I = {} THEN R(0)
  ELSE LET i == CHOOSE j \in I : TRUE
       IN  RAdd(evaluate(p.components[i].series, y, p.baseYear),
                SumOver(I \ {i}, p, y))

\* C6: totalByCategory is the sum of evaluate(c.series, year, plan.baseYear)
\* over exactly the components of the requested category, repeated names
\* each counted, and 0 when there is none.
TotalIsCategorySum ==
  call.fn = "totalByCategory" =>
    LET I == InCategory(plan, call.category)
    IN  /\ call.result = SumOver(I, plan, call.year)
        /\ I = {} => call.result = R(0)

\* C6 witness: two components of the category share a name, a component of
\* another category is present, and the year is not the base year.
TotalIsCategorySumWitness ==
  /\ call.fn = "totalByCategory"
  /\ call.year > plan.baseYear
  /\ LET I == InCategory(plan, call.category)
     IN  /\ \E i, j \in I :
               /\ i # j
               /\ plan.components[i].name = plan.components[j].name
               /\ plan.components[i].series # plan.components[j].series
         /\ I # 1..Len(plan.components)
         /\ call.result = SumOver(I, plan, call.year)
         /\ RLt(R(0), call.result)

\* the component a step appends to the plan
Added == plan'.components[Len(plan'.components)]

\* C7: adding a component changes the total of its own category only; an
\* added Investment component leaves the Income and Spending totals of every
\* year unchanged.
CategoryIndependence ==
  [][plan'.components # plan.components =>
       \A category \in ComponentCategory \ {Added.category} :
         \A y \in PlanYears :
           totalByCategory(plan', category, y) = totalByCategory(plan, category, y)]_vars

\* C7 witness: an Investment component was added last to a plan that has
\* income and spending, and the investment total did change.
CategoryIndependenceWitness ==
  /\ Len(plan.components) >= 3
  /\ LET n == Len(plan.components)
         before == [plan EXCEPT !.components = SubSeq(@, 1, n - 1)]
     IN  /\ plan.components[n].category = "investment"
         /\ InCategory(before, "income") # {}
         /\ InCategory(before, "spending") # {}
         /\ totalByCategory(plan, "investment", plan.baseYear)
              # totalByCategory(before, "investment", plan.baseYear)

\* the plan without its Investment components
WithoutInvestment(p) ==
  [p EXCEPT !.components = SelectSeq(@, LAMBDA c : c.category # "investment")]

\* C8: netCashFlow is the Income total minus the Spending total; Investment
\* components do not affect it; it is negative when spending exceeds income.
NetCashFlowIsIncomeMinusSpending ==
  call.fn = "netCashFlow" =>
    LET income == SumOver(InCategory(plan, "income"), plan, call.year)
        spending == SumOver(InCategory(plan, "spending"), plan, call.year)
    IN  /\ call.result = RSub(income, spending)
        /\ call.result = netCashFlow(WithoutInvestment(plan), call.year)
        /\ RLt(income, spending) => RLt(call.result, R(0))

\* C8 witness: spending exceeds income in a plan that also invests.
NetCashFlowWitness ==
  /\ call.fn = "netCashFlow"
  /\ RLt(R(0), totalByCategory(plan, "investment", call.year))
  /\ RLt(R(0), totalByCategory(plan, "income", call.year))
  /\ RLt(totalByCategory(plan, "income", call.year),
         totalByCategory(plan, "spending", call.year))
  /\ RLt(call.result, R(0))

\* C9: aggregateByYear returns one record per year of [startYear, endYear),
\* years ascending and consecutive from startYear; the list is empty when
\* startYear >= endYear.
AggregateOnePerYear ==
  call.fn = "aggregateByYear" =>
    LET r == call.result
        s == params.startYear
        e == params.endYear
    IN  /\ Len(r) = IF s < e THEN e - s ELSE 0
        /\ \A i \in 1..Len(r) : r[i].year = s + i - 1

\* C9 witness: a range of at least two years has been aggregated.
AggregateOnePerYearWitness ==
  /\ call.fn = "aggregateByYear"
  /\ params.endYear >= params.startYear + 2
  /\ Len(call.result) = params.endYear - params.startYear
  /\ plan.components # <<>>

(***************************************************************************)
(* Properties of projectNetWorth                                           *)
(***************************************************************************)
InProjection == pc = "project" \/ call.fn = "projectNetWorth"

\* C1: every emitted record carries
\* (netWorth_before + investment) * (1 + rate) + (income - spending - investment),
\* netWorth_before being initialNetWorth for the first year and the previous
\* record's netWorth afterwards; income 100000, spending 50000, investment
\* 20000, initial 0, rate 0.10 gives 52000 after one year.
YearlyUpdateRule ==
  InProjection =>
    /\ \A i \in 1..Len(results) :
         LET y == results[i].year
             before == IF i = 1 THEN params.initialNetWorth
                       ELSE results[i - 1].netWorth
             income == totalByCategory(plan, "income", y)
             spending == totalByCategory(plan, "spending", y)
             investment == totalByCategory(plan, "investment", y)
         IN  results[i].netWorth =
               RAdd(RMul(RAdd(before, investment),
                         RAdd(R(1), params.investmentReturnRate)),
                    RSub(RSub(income, spending), investment))
    /\ netWorth = IF results = <<>> THEN params.initialNetWorth
                  ELSE results[Len(results)].netWorth
    /\ ( /\ plan.components = TestPlanComponents
         /\ params.initialNetWorth = R(0)
         /\ params.investmentReturnRate = Q(1, 10)
         /\ results # <<>> )
       => results[1].netWorth = R(52000)

\* C1 witness: the test plan projected over two years at 10%.
YearlyUpdateRuleWitness ==
  /\ call.fn = "projectNetWorth"
  /\ plan.components = TestPlanComponents
  /\ params.initialNetWorth = R(0)
  /\ params.investmentReturnRate = Q(1, 10)
  /\ Len(call.result) = 2
  /\ call.result[1].netWorth = R(52000)
  /\ call.result[2].netWorth = R(109200)

\* the records emitted so far are those of the years startYear,
\* startYear + 1, ... in order; inside the loop their number is
\* year - startYear and never exceeds the length of the range
ProjectionRecords ==
  InProjection =>
    LET n == IF params.startYear < params.endYear
             THEN params.endYear - params.startYear ELSE 0
    IN  /\ \A i \in 1..Len(results) : results[i].year = params.startYear + i - 1
        /\ Len(results) <= n
        /\ pc = "project" => Len(results) = year - params.startYear
        /\ call.fn = "projectNetWorth" =>
             /\ call.result = results
             /\ Len(results) = n

\* a step taken inside the loop either runs one iteration, which is allowed
\* only below endYear, moves to the next year and appends one record to the
\* records already emitted, or leaves the loop with the records unchanged
ProjectionLoopStep ==
  pc = "project" =>
    \/ /\ pc' = "project"
       /\ year < params.endYear
       /\ year' = year + 1
       /\ Len(results') = Len(results) + 1
       /\ SubSeq(results', 1, Len(results)) = results
    \/ /\ pc' = "done"
       /\ year >= params.endYear
       /\ results' = results

ConstantCashFlowPlan(p) ==
  \A i \in 1..Len(p.components) :
    /\ p.components[i].category \in {"income", "spending"}
    /\ p.components[i].series.type = "constant"

\* the sum of the constants of one category, read off the components
RECURSIVE ConstantTotal(_, _)
ConstantTotal(cs, category) ==
  IF cs = <<>> THEN R(0)
  ELSE RAdd(IF Head(cs).category = category THEN Head(cs).series.value ELSE R(0),
            ConstantTotal(Tail(cs), category))

\* C11: with investmentReturnRate 0 and constant income I and spending S,
\* the k-th record has netWorth = initialNetWorth + k * (I - S), also when
\* S > I; I = 100000, S = 50000, initial 0 gives 50000, 100000, 150000.
LinearSavings ==
  (InProjection /\ params.investmentReturnRate = R(0)
     /\ ConstantCashFlowPlan(plan)) =>
    LET I == ConstantTotal(plan.components, "income")
        S == ConstantTotal(plan.components, "spending")
    IN  \A k \in 1..Len(results) :
          results[k].netWorth =
            RAdd(params.initialNetWorth, RMul(R(k), RSub(I, S)))

\* C11 witness: three years of saving 50000 a year have been returned.
LinearSavingsWitness ==
  /\ call.fn = "projectNetWorth"
  /\ plan.components = << component("Salary", "income", constant(R(100000))),
                          component("Expenses", "spending", constant(R(50000))) >>
  /\ params.investmentReturnRate = R(0)
  /\ params.initialNetWorth = R(0)
  /\ Len(call.result) = 3
  /\ call.result[1].netWorth = R(50000)
  /\ call.result[3].netWorth = R(150000)

\* C12: for a plan without components the k-th record has
\* netWorth = initialNetWorth * (1 + investmentReturnRate)^k; with rate 0
\* the net worth stays at initialNetWorth.
CompoundingOnly ==
  (InProjection /\ plan.components = <<>>) =>
    \A k \in 1..Len(results) :
      /\ results[k].netWorth =
           RMul(params.initialNetWorth,
                RPowNat(RAdd(R(1), params.investmentReturnRate), k))
      /\ params.investmentReturnRate = R(0) =>
           results[k].netWorth = params.initialNetWorth

\* C12 witness: 50000 at 10% has compounded for three years to 66550.
CompoundingOnlyWitness ==
  /\ call.fn = "projectNetWorth"
  /\ plan.components = <<>>
  /\ params.initialNetWorth = R(50000)
  /\ params.investmentReturnRate = Q(1, 10)
  /\ Len(call.result) = 3
  /\ call.result[1].netWorth = R(55000)
  /\ call.result[3].netWorth = R(66550)

\* the net worth a record starts from
netWorthBefore(i) ==
  IF i = 1 THEN params.initialNetWorth ELSE results[i - 1].netWorth

\* C13: the yearly update is the same whatever the sign of the running net
\* worth: a negative result is kept as it is (no clamping at zero) and a
\* negative invested amount still earns (negative) returns; spending 50000
\* only, rate 0, initial 0 gives -50000, -100000, -150000.
NoNegativeGating ==
  InProjection =>
    /\ \A i \in 1..Len(results) :
         LET y == results[i].year
             income == totalByCategory(plan, "income", y)
             spending == totalByCategory(plan, "spending", y)
             investment == totalByCategory(plan, "investment", y)
             invested == RAdd(netWorthBefore(i), investment)
             returns == RMul(invested, params.investmentReturnRate)
             ungated == RAdd(RAdd(invested, returns),
                             RSub(RSub(income, spending), investment))
         IN  (RLt(netWorthBefore(i), R(0)) \/ RLt(invested, R(0))
                \/ RLt(ungated, R(0))) =>
               results[i].netWorth = ungated
    /\ ( /\ plan.components =
              << component("Expenses", "spending", constant(R(50000))) >>
         /\ params.investmentReturnRate = R(0)
         /\ params.initialNetWorth = R(0) ) =>
         \A i \in 1..Len(results) : results[i].netWorth = R(-50000 * i)

\* C13 witness: a negative net worth has been charged a negative return,
\* -50000 becoming -50000 * 1.1 - 50000 = -105000.
NoNegativeGatingWitness ==
  /\ call.fn = "projectNetWorth"
  /\ plan.components = << component("Expenses", "spending", constant(R(50000))) >>
  /\ params.initialNetWorth = R(0)
  /\ params.investmentReturnRate = Q(1, 10)
  /\ Len(call.result) >= 2
  /\ call.result[1].netWorth = R(-50000)
  /\ call.result[2].netWorth = R(-105000)

\* a later call has returned with the arguments of the reference call
SameArgumentsReturned ==
  /\ pc = "done"
  /\ call.fn = "projectNetWorth"
  /\ params = call.params

\* a step of a call leaves the plan and the parameters it was given alone
ArgumentsUntouched ==
  pc = "project" => plan' = plan /\ params' = params

\* C14: projectNetWorth keeps no state between calls: a call with the
\* arguments of an earlier call returns the same records, whatever calls
\* were made in between, and no step of a call modifies the plan or the
\* parameters.
ProjectionDeterministic ==
  /\ [](SameArgumentsReturned => results = call.result)
  /\ [][ArgumentsUntouched]_vars

\* C14 witness: the second call after the reference call has returned; it
\* repeated the arguments of the reference call and gave three records.
ProjectionDeterministicWitness ==
  /\ SameArgumentsReturned
  /\ call.later = 2
  /\ plan.components = TestPlanComponents
  /\ params.investmentReturnRate = Q(1, 10)
  /\ Len(results) = 3
  /\ results[3].netWorth = netWorth

(***************************************************************************)
(* The fields of the records of aggregateByYear                            *)
(***************************************************************************)
InAggregation == pc = "aggregate" \/ call.fn = "aggregateByYear"

\* C15: each record of aggregateByYear for year y has income, spending and
\* investment equal to the totals of the three categories in y and
\* netCashFlow equal to income - spending, which is netCashFlow(plan, y):
\* the investment total is reported but not subtracted.
AggregateFields ==
  InAggregation =>
    \A i \in 1..Len(results) :
      LET rec == results[i]
      IN  /\ rec.income = totalByCategory(plan, "income", rec.year)
          /\ rec.spending = totalByCategory(plan, "spending", rec.year)
          /\ rec.investment = totalByCategory(plan, "investment", rec.year)
          /\ rec.netCashFlow = RSub(rec.income, rec.spending)
          /\ rec.netCashFlow = netCashFlow(plan, rec.year)

\* C15 witness: a plan with the three categories has been aggregated; its
\* 2026 record reports the investment of 20000 next to a net cash flow of
\* 42000 - 50000.
AggregateFieldsWitness ==
  /\ call.fn = "aggregateByYear"
  /\ plan.baseYear = 2025
  /\ plan.components =
       << component("Salary", "income", linear(R(40000), R(2000))),
          component("Expenses", "spending", constant(R(50000))),
          component("401k", "investment", constant(R(20000))) >>
  /\ Len(call.result) >= 2
  /\ call.result[1] = [year |-> 2026, income |-> R(42000),
                       spending |-> R(50000), investment |-> R(20000),
                       netCashFlow |-> R(-8000)]

(***************************************************************************)
(* The values of the leaf series                                           *)
(***************************************************************************)
IsEvalOf(type) == call.fn = "evaluate" /\ call.series.type = type

\* v after n yearly steps of k, backwards for negative n
RECURSIVE AddTimes(_, _, _)
AddTimes(v, k, n) ==
  IF n = 0 THEN v
  ELSE IF n > 0 THEN AddTimes(RAdd(v, k), k, n - 1)
       ELSE AddTimes(RSub(v, k), k, n + 1)

\* C16: evaluate(Linear{s,k}, base + n, base) = s + n * k for every integer
\* n: s at n = 0, n increments later, -n increments taken back before the
\* base year, for positive, zero and negative k.
LinearAdditivity ==
  IsEvalOf("linear") =>
    LET n == call.year - call.baseYear
    IN  /\ call.result = AddTimes(call.series.startValue,
                                  call.series.yearlyIncrement, n)
        /\ n = 0 => call.result = call.series.startValue
        /\ call.series.yearlyIncrement = R(0) =>
             call.result = call.series.startValue

\* C16 witness: a negative increment three years before the base year,
\* 50000 - (-3) * 5000 = 65000.
LinearAdditivityWitness ==
  /\ IsEvalOf("linear")
  /\ call.series = linear(R(50000), R(-5000))
  /\ call.year = 2024
  /\ call.baseYear = 2027
  /\ call.result = R(65000)

\* v compounded n times at rate r, divided by 1 + r for every year before
RECURSIVE Compound(_, _, _)
Compound(v, r, n) ==
  IF n = 0 THEN v
  ELSE IF n > 0 THEN Compound(RMul(v, RAdd(R(1), r)), r, n - 1)
       ELSE Compound(RMul(v, RInv(RAdd(R(1), r))), r, n + 1)

\* C17: evaluate(Ratio{s,r}, base + n, base) = s * (1 + r)^n for every
\* integer n: s at n = 0, one compounding per elapsed year, one division by
\* 1 + r per year before the base year, a decline for negative r > -1.
RatioCompounding ==
  IsEvalOf("ratio") =>
    LET n == call.year - call.baseYear
        s == call.series.startValue
        r == call.series.yearlyGrowthRate
    IN  /\ call.result = Compound(s, r, n)
        /\ n = 0 => call.result = s
        /\ (n > 0 /\ RLt(r, R(0))) => RLt(call.result, s)
        /\ (n > 0 /\ RLt(R(0), r)) => RLt(s, call.result)

\* C17 witness: Ratio{100000, 0.10} five years after the base year is 161051.
RatioCompoundingWitness ==
  /\ IsEvalOf("ratio")
  /\ call.series = ratio(R(100000), Q(1, 10))
  /\ call.year = 2030
  /\ call.baseYear = 2025
  /\ call.result = R(161051)

\* C18: evaluate(Constant{v}, y, base) = v for every year and base year,
\* also before the base year and for zero or negative v.
ConstantStability ==
  IsEvalOf("constant") => call.result = call.series.value

\* C18 witness: a negative constant evaluated before the base year.
ConstantStabilityWitness ==
  /\ IsEvalOf("constant")
  /\ call.series = constant(R(-5000))
  /\ call.year < call.baseYear
  /\ call.result = R(-5000)

(***************************************************************************)
(* lib/serialization: serialize, deserialize, validatePlan.                *)
(* A JSON text is modelled by the value it denotes: a tree of tagged       *)
(* values.  JSON.stringify builds the tree from the plan object and        *)
(* JSON.parse hands it, untyped, to the validators, which rebuild the plan *)
(* field by field or throw.                                                *)
(***************************************************************************)
JNumber(v) == [kind |-> "number", number |-> v]
JString(t) == [kind |-> "string", text |-> t]
JArray(items) == [kind |-> "array", items |-> items]
JObject(fields) == [kind |-> "object", fields |-> fields]
\* the value of a property an object does not have
JUndefined == [kind |-> "undefined"]
JNull == [kind |-> "null"]
\* a text JSON.parse rejects
JInvalid == [kind |-> "invalid"]

\* typeof value
typeOf(v) ==
  IF v.kind \in {"object", "array", "null"} THEN "object" ELSE v.kind

\* reading a property of null or undefined throws a TypeError
nullish(v) == v.kind \in {"null", "undefined"}

\* data.key
Get(data, key) ==
  IF data.kind = "object" /\ key \in DOMAIN data.fields
  THEN data.fields[key] ELSE JUndefined

\* data.key === text
IsText(v, t) == v.kind = "string" /\ v.text = t

\* mutant: typeof value === 'object' alone, which null and arrays pass
isObjectTypeofOnly(v) == typeOf(v) = "object"

\* typeof value === 'object' && value !== null && !Array.isArray(value)
isObject(v) ==
  typeOf(v) = "object" /\ v.kind # "null" /\ v.kind # "array"
isNumber(v) == v.kind = "number"
isString(v) == v.kind = "string"
isArray(v) == v.kind = "array"

\* JSON.stringify of a series, a component and a plan
RECURSIVE stringifySeries(_)
stringifySeries(series) ==
  CASE series.type = "constant" ->
         JObject([type |-> JString("constant"), value |-> JNumber(series.value)])
    [] series.type = "linear" ->
         JObject([type |-> JString("linear"),
                  startValue |-> JNumber(series.startValue),
                  yearlyIncrement |-> JNumber(series.yearlyIncrement)])
    [] series.type = "ratio" ->
         JObject([type |-> JString("ratio"),
                  startValue |-> JNumber(series.startValue),
                  yearlyGrowthRate |-> JNumber(series.yearlyGrowthRate)])
    [] series.type = "composite" ->
         JObject([type |-> JString("composite"),
                  segments |->
                    JArray([i \in 1..Len(series.segments) |->
                      JObject([series |-> stringifySeries(series.segments[i].series),
                               startYear |-> JNumber(series.segments[i].startYear),
                               endYear |-> JNumber(series.segments[i].endYear)])])])

stringifyComponent(c) ==
  JObject([name |-> JString(c.name), category |-> JString(c.category),
           series |-> stringifySeries(c.series)])

stringifyPlan(p) ==
  JObject([baseYear |-> JNumber(p.baseYear),
           components |->
             JArray([i \in 1..Len(p.components) |->
                       stringifyComponent(p.components[i])])])

\* JSON.parse: the value of the text, or a SyntaxError
parseThrows(json) == json.kind = "invalid"

\* the outcome of a validator: the value returned or the error thrown
Returned(v) == [ok |-> TRUE, value |-> v]
ValidationError(message, path) ==
  [ok |-> FALSE, error |-> "ValidationError", message |-> message, path |-> path]
\* the error of the runtime when a property of null or undefined is read
TypeError(path) ==
  [ok |-> FALSE, error |-> "TypeError",
   message |-> <<"Cannot read properties of null">>, path |-> path]

\* `[${i}]` for the index i of Array.map, counted from 0
IndexText(i) ==
  <<"[0]", "[1]", "[2]", "[3]", "[4]", "[5]", "[6]", "[7]">>[i + 1]

validateConstantSeries(data, path) ==
  IF ~isObject(data) THEN ValidationError(<<"expected object">>, path)
  ELSE IF nullish(data) THEN TypeError(path)
  ELSE IF ~IsText(Get(data, "type"), "constant")
    THEN ValidationError(<<"expected type \"constant\"">>, path)
  ELSE IF ~isNumber(Get(data, "value"))
    THEN ValidationError(<<"value must be a number">>, path \o <<"value">>)
  ELSE Returned([type |-> "constant", value |-> Get(data, "value").number])

validateLinearSeries(data, path) ==
  IF ~isObject(data) THEN ValidationError(<<"expected object">>, path)
  ELSE IF nullish(data) THEN TypeError(path)
  ELSE IF ~IsText(Get(data, "type"), "linear")
    THEN ValidationError(<<"expected type \"linear\"">>, path)
  ELSE IF ~isNumber(Get(data, "startValue"))
    THEN ValidationError(<<"startValue must be a number">>,
                         path \o <<"startValue">>)
  ELSE IF ~isNumber(Get(data, "yearlyIncrement"))
    THEN ValidationError(<<"yearlyIncrement must be a number">>,
                         path \o <<"yearlyIncrement">>)
  ELSE Returned([type |-> "linear",
                 startValue |-> Get(data, "startValue").number,
                 yearlyIncrement |-> Get(data, "yearlyIncrement").number])

validateRatioSeries(data, path) ==
  IF ~isObject(data) THEN ValidationError(<<"expected object">>, path)
  ELSE IF nullish(data) THEN TypeError(path)
  ELSE IF ~IsText(Get(data, "type"), "ratio")
    THEN ValidationError(<<"expected type \"ratio\"">>, path)
  ELSE IF ~isNumber(Get(data, "startValue"))
    THEN ValidationError(<<"startValue must be a number">>,
                         path \o <<"startValue">>)
  ELSE IF ~isNumber(Get(data, "yearlyGrowthRate"))
    THEN ValidationError(<<"yearlyGrowthRate must be a number">>,
                         path \o <<"yearlyGrowthRate">>)
  ELSE Returned([type |-> "ratio",
                 startValue |-> Get(data, "startValue").number,
                 yearlyGrowthRate |-> Get(data, "yearlyGrowthRate").number])

\* the text of data.type in the message of an unknown series type
typeText(v) == IF v.kind = "string" THEN v.text ELSE v.kind

RECURSIVE validateTimeSeries(_, _)
RECURSIVE validateCompositeSeries(_, _)
RECURSIVE validateSegments(_, _, _)

\* data.segments.map(...) from the i-th segment on: the first throw ends it
validateSegments(items, path, i) ==
  IF i > Len(items) THEN Returned(<<>>)
  ELSE
    LET seg == items[i]
        segPath == path \o <<"segments", IndexText(i - 1)>>
    IN  IF ~isObject(seg) THEN ValidationError(<<"expected object">>, segPath)
        ELSE IF nullish(seg) THEN TypeError(segPath)
        ELSE IF ~isNumber(Get(seg, "startYear"))
          THEN ValidationError(<<"startYear must be a number">>,
                               segPath \o <<"startYear">>)
        ELSE IF ~isNumber(Get(seg, "endYear"))
          THEN ValidationError(<<"endYear must be a number">>,
                               segPath \o <<"endYear">>)
        ELSE
          LET inner == validateTimeSeries(Get(seg, "series"),
                                          segPath \o <<"series">>)
          IN  IF ~inner.ok THEN inner
              ELSE
                LET rest == validateSegments(items, path, i + 1)
                IN  IF ~rest.ok THEN rest
                    ELSE Returned(<<[series |-> inner.value,
                                     startYear |-> Get(seg, "startYear").number,
                                     endYear |-> Get(seg, "endYear").number]>>
                                  \o rest.value)

validateCompositeSeries(data, path) ==
  IF ~isObject(data) THEN ValidationError(<<"expected object">>, path)
  ELSE IF nullish(data) THEN TypeError(path)
  ELSE IF ~IsText(Get(data, "type"), "composite")
    THEN ValidationError(<<"expected type \"composite\"">>, path)
  ELSE IF ~isArray(Get(data, "segments"))
    THEN ValidationError(<<"segments must be an array">>, path \o <<"segments">>)
  ELSE
    LET segments == validateSegments(Get(data, "segments").items, path, 1)
    IN  IF ~segments.ok THEN segments
        ELSE Returned([type |-> "composite", segments |-> segments.value])

validateTimeSeries(data, path) ==
  IF ~isObject(data) THEN ValidationError(<<"expected object">>, path)
  ELSE IF nullish(data) THEN TypeError(path)
  ELSE
    LET type == Get(data, "type")
    IN  CASE IsText(type, "constant") -> validateConstantSeries(data, path)
          [] IsText(type, "linear") -> validateLinearSeries(data, path)
          [] IsText(type, "ratio") -> validateRatioSeries(data, path)
          [] IsText(type, "composite") -> validateCompositeSeries(data, path)
          [] OTHER -> ValidationError(<<"unknown series type: ", typeText(type)>>,
                                      path \o <<"type">>)

VALID_CATEGORIES == <<"income", "spending">>

\* VALID_CATEGORIES.includes(category)
includes(list, v) == \E i \in 1..Len(list) : list[i] = v

validateComponent(data, path) ==
  IF ~isObject(data) THEN ValidationError(<<"expected object">>, path)
  ELSE IF nullish(data) THEN TypeError(path)
  ELSE IF ~isString(Get(data, "name"))
    THEN ValidationError(<<"name must be a string">>, path \o <<"name">>)
  ELSE IF \/ ~isString(Get(data, "category"))
          \/ ~includes(VALID_CATEGORIES, Get(data, "category").text)
    THEN ValidationError(<<"category must be one of: ">> \o VALID_CATEGORIES,
                         path \o <<"category">>)
  ELSE
    LET series == validateTimeSeries(Get(data, "series"), path \o <<"series">>)
    IN  IF ~series.ok THEN series
        ELSE Returned([name |-> Get(data, "name").text,
                       category |-> Get(data, "category").text,
                       series |-> series.value])

\* data.components.map(...) from the i-th component on
RECURSIVE validateComponents(_, _, _)
validateComponents(items, path, i) ==
  IF i > Len(items) THEN Returned(<<>>)
  ELSE
    LET comp == validateComponent(items[i],
                                  path \o <<"components", IndexText(i - 1)>>)
    IN  IF ~comp.ok THEN comp
        ELSE
          LET rest == validateComponents(items, path, i + 1)
          IN  IF ~rest.ok THEN rest
              ELSE Returned(<<comp.value>> \o rest.value)

validatePlan(data, path) ==
  IF ~isObject(data) THEN ValidationError(<<"expected object">>, path)
  ELSE IF nullish(data) THEN TypeError(path)
  ELSE IF ~isNumber(Get(data, "baseYear"))
    THEN ValidationError(<<"baseYear must be a number">>, path \o <<"baseYear">>)
  ELSE IF ~isArray(Get(data, "components"))
    THEN ValidationError(<<"components must be an array">>,
                         path \o <<"components">>)
  ELSE
    LET components == validateComponents(Get(data, "components").items, path, 1)
    IN  IF ~components.ok THEN components
        ELSE Returned([baseYear |-> Get(data, "baseYear").number,
                       components |-> components.value])

serialize(p) == stringifyPlan(p)

deserialize(json) ==
  IF parseThrows(json) THEN ValidationError(<<"invalid JSON">>, <<>>)
  ELSE validatePlan(json, <<"plan">>)

\* the components of the plans that are serialized: those of the
\* aggregation tests and one with a composite nested in a composite
SerialComponents ==
  ComponentPool \cup {component("Moves", "spending", TestNested)}

InitSerial ==
  /\ plan \in [baseYear : BaseYears,
               components : SeqsUpTo(SerialComponents, MaxComponents)]
  /\ call = [fn |-> "none"]
  /\ pc = "idle"
  /\ params = NoParams
  /\ year = 0
  /\ netWorth = R(0)
  /\ results = <<>>
  /\ NoStateManager

\* an object without one of its properties
Without(data, key) ==
  JObject([k \in DOMAIN data.fields \ {key} |-> data.fields[k]])

CategoryData ==
  { JString("income"), JString("spending"), JString("investment"),
    JString("invalid"), JNumber(R(1)) }

NameData == { JString("Salary"), JNumber(R(1)) }

SeriesData ==
  { stringifySeries(constant(R(80000))),
    stringifySeries(TestSegmentsB),
    JObject([type |-> JString("unknown")]),
    JObject([type |-> JString("constant"), value |-> JString("80000")]) }

\* component data with every combination of name, category and series, and
\* with the category missing
ComponentData ==
  LET full == { JObject([name |-> n, category |-> c, series |-> x]) :
                  n \in NameData, c \in CategoryData, x \in SeriesData }
  IN  full \cup { Without(d, "category") : d \in full }

\* the plan data handed to validatePlan: one component, or a valid income
\* component followed by one
ValidateInputs ==
  LET first == stringifyComponent(component("Salary", "income",
                                            constant(R(100000))))
  IN  { JObject([baseYear |-> JNumber(2025), components |-> JArray(<<d>>)]) :
          d \in ComponentData }
        \cup
      { JObject([baseYear |-> JNumber(2025), components |-> JArray(<<first, d>>)]) :
          d \in ComponentData }

\* series data the validators reject, and nested data they accept
SeriesInputs ==
  SeriesData \cup
  { JNull, JString("string"), JNumber(R(123)), JArray(<<>>),
    JObject([type |-> JString("constant")]),
    JObject([type |-> JString("linear"), startValue |-> JNumber(R(100))]),
    JObject([type |-> JString("ratio"), startValue |-> JNumber(R(100))]),
    JObject([type |-> JString("unknown"), value |-> JNumber(R(123))]),
    JObject([value |-> JNumber(R(123))]),
    JObject([type |-> JString("composite")]),
    JObject([type |-> JString("composite"), segments |-> JArray(<<JNull>>)]),
    JObject([type |-> JString("composite"),
             segments |-> JArray(<<
               JObject([series |-> stringifySeries(constant(R(80000))),
                        startYear |-> JNumber(2025), endYear |-> JNumber(2030)]),
               JObject([series |-> stringifySeries(constant(R(80000))),
                        startYear |-> JNumber(2030)]) >>)]),
    JObject([type |-> JString("composite"),
             segments |-> JArray(<<
               JObject([series |-> JObject([type |-> JString("constant")]),
                        startYear |-> JNumber(2025),
                        endYear |-> JNumber(2030)]) >>)]),
    stringifySeries(linear(R(80000), R(2000))),
    stringifySeries(ratio(R(80000), Q(1, 10))),
    stringifySeries(TestNested) }

\* plan data that is no plan, and plans of one component around each of
\* the series above
MalformedPlans ==
  { JNull, JString("plan"), JArray(<<>>),
    JObject([foo |-> JString("bar")]),
    JObject([components |-> JArray(<<>>)]),
    JObject([baseYear |-> JString("2025"), components |-> JArray(<<>>)]),
    JObject([baseYear |-> JNumber(2025)]),
    JObject([baseYear |-> JNumber(2025),
             components |-> JString("not an array")]),
    JObject([baseYear |-> JNumber(2025), components |-> JArray(<<JNull>>)]),
    JObject([baseYear |-> JNumber(2025), components |-> JArray(<<>>)]) }
    \cup
  { JObject([baseYear |-> JNumber(2025),
             components |-> JArray(<<
               JObject([name |-> JString("Test"), category |-> JString("income"),
                        series |-> x]) >>)]) : x \in SeriesInputs }

\* the texts handed to deserialize: one that is not JSON, and JSON texts
JsonTexts == {JInvalid} \cup MalformedPlans

\* serialize(plan)
Serialize ==
  /\ pc = "idle"
  /\ call.fn = "none"
  /\ call' = [fn |-> "serialize", result |-> serialize(plan)]
  /\ UNCHANGED <<plan, pc, params, year, netWorth, results>>
  /\ UNCHANGED uiVars

\* deserialize(json) of the text serialize returned
Deserialize ==
  /\ pc = "idle"
  /\ call.fn = "serialize"
  /\ call' = [fn |-> "deserialize", json |-> call.result,
              result |-> deserialize(call.result)]
  /\ UNCHANGED <<plan, pc, params, year, netWorth, results>>
  /\ UNCHANGED uiVars

\* validatePlan(data)
ValidatePlan ==
  /\ pc = "idle"
  /\ call.fn = "none"
  /\ plan.components = <<>>
  /\ \E data \in ValidateInputs :
       call' = [fn |-> "validatePlan", data |-> data,
                result |-> validatePlan(data, <<"plan">>)]
  /\ UNCHANGED <<plan, pc, params, year, netWorth, results>>
  /\ UNCHANGED uiVars

\* validatePlan(data) on data that is no plan or holds a bad series
ValidateMalformed ==
  /\ pc = "idle"
  /\ call.fn = "none"
  /\ plan.components = <<>>
  /\ \E data \in MalformedPlans :
       call' = [fn |-> "validatePlan", data |-> data,
                result |-> validatePlan(data, <<"plan">>)]
  /\ UNCHANGED <<plan, pc, params, year, netWorth, results>>
  /\ UNCHANGED uiVars

\* validateTimeSeries(data), path defaulting to 'series'
ValidateTimeSeries ==
  /\ pc = "idle"
  /\ call.fn = "none"
  /\ plan.components = <<>>
  /\ \E data \in SeriesInputs :
       call' = [fn |-> "validateTimeSeries", data |-> data,
                result |-> validateTimeSeries(data, <<"series">>)]
  /\ UNCHANGED <<plan, pc, params, year, netWorth, results>>
  /\ UNCHANGED uiVars

\* deserialize(json) of a text that did not come from serialize
DeserializeText ==
  /\ pc = "idle"
  /\ call.fn = "none"
  /\ plan.components = <<>>
  /\ \E json \in JsonTexts :
       call' = [fn |-> "deserialize", json |-> json,
                result |-> deserialize(json)]
  /\ UNCHANGED <<plan, pc, params, year, netWorth, results>>
  /\ UNCHANGED uiVars

(***************************************************************************)
(* ui/url-sharing: loadPlanFromURL.  The 'plan' parameter of the URL is    *)
(* absent, empty, or a text; lz-string either fails on a text (null or an  *)
(* empty string) or gives back the text that was compressed.               *)
(***************************************************************************)
validateExtendedPlan(data, path) ==
  IF ~isObject(data) THEN ValidationError(<<"expected object">>, path)
  ELSE IF nullish(data) THEN TypeError(path)
  ELSE IF ~isNumber(Get(data, "baseYear"))
    THEN ValidationError(<<"baseYear must be a number">>, path \o <<"baseYear">>)
  ELSE IF ~isNumber(Get(data, "projectionYears"))
    THEN ValidationError(<<"projectionYears must be a number">>,
                         path \o <<"projectionYears">>)
  ELSE IF ~isNumber(Get(data, "initialNetWorth"))
    THEN ValidationError(<<"initialNetWorth must be a number">>,
                         path \o <<"initialNetWorth">>)
  ELSE IF ~isNumber(Get(data, "investmentReturnRate"))
    THEN ValidationError(<<"investmentReturnRate must be a number">>,
                         path \o <<"investmentReturnRate">>)
  ELSE IF ~isArray(Get(data, "components"))
    THEN ValidationError(<<"components must be an array">>,
                         path \o <<"components">>)
  ELSE
    LET components == validateComponents(Get(data, "components").items, path, 1)
    IN  IF ~components.ok THEN components
        ELSE Returned([baseYear |-> Get(data, "baseYear").number,
                       projectionYears |-> Get(data, "projectionYears").number,
                       initialNetWorth |-> Get(data, "initialNetWorth").number,
                       investmentReturnRate |->
                         Get(data, "investmentReturnRate").number,
                       components |-> components.value])

\* the 'plan' parameter of window.location.search
NoParameter == [param |-> "absent"]
EmptyParameter == [param |-> "empty"]
\* a parameter on which decompressFromEncodedURIComponent fails
Undecodable == [param |-> "garbage"]
\* the parameter compressToEncodedURIComponent made of a text
Encoded(json) == [param |-> "encoded", json |-> json]

\* !encoded: urlParams.get gave null or ''
missing(encoded) == encoded.param \in {"absent", "empty"}

\* !json after decompressFromEncodedURIComponent(encoded)
decompressFails(encoded) == encoded.param = "garbage"

decodeFromURL(encoded) ==
  IF decompressFails(encoded)
  THEN ValidationError(<<"failed to decompress URL data">>, <<>>)
  ELSE deserialize(encoded.json)

decodeExtendedPlanFromURL(encoded) ==
  IF decompressFails(encoded)
  THEN ValidationError(<<"failed to decompress URL data">>, <<>>)
  ELSE IF parseThrows(encoded.json) THEN ValidationError(<<"invalid JSON">>, <<>>)
  ELSE validateExtendedPlan(encoded.json, <<"plan">>)

\* the legacy plan completed with the default parameters
extendedFromLegacy(legacyPlan) ==
  [baseYear |-> legacyPlan.baseYear,
   projectionYears |-> 20,
   initialNetWorth |-> R(50000),
   investmentReturnRate |-> Q(7, 100),
   components |-> legacyPlan.components]

\* mutant: no error is taken for a ValidationError
instanceofValidationErrorNever(error) == FALSE

\* error instanceof ValidationError
instanceofValidationError(error) == error.error = "ValidationError"

\* the outcome of loadPlanFromURL: Returned(null), Returned(a plan), or the
\* error it rethrows
loadPlanFromURL(encoded) ==
  IF missing(encoded) THEN Returned(JNull)
  ELSE
    LET extended == decodeExtendedPlanFromURL(encoded)
    IN  IF extended.ok THEN extended
        ELSE IF instanceofValidationError(extended)
          THEN LET legacy == decodeFromURL(encoded)
               IN  IF legacy.ok THEN Returned(extendedFromLegacy(legacy.value))
                   ELSE Returned(JNull)
        ELSE extended

\* JSON.stringify of an extended plan
stringifyExtendedPlan(e) ==
  JObject([baseYear |-> JNumber(e.baseYear),
           projectionYears |-> JNumber(e.projectionYears),
           initialNetWorth |-> JNumber(e.initialNetWorth),
           investmentReturnRate |-> JNumber(e.investmentReturnRate),
           components |->
             JArray([i \in 1..Len(e.components) |->
                       stringifyComponent(e.components[i])])])

\* component lists of shared plans
SharedComponents ==
  { <<>>,
    << component("Salary", "income", constant(R(100000))),
       component("Expenses", "spending", constant(R(50000))) >>,
    << component("Salary", "income", ratio(R(80000), Q(1, 10))),
       component("Rent", "spending",
                 composite(<<segment(constant(R(24000)), 2026, 2028)>>)) >> }

\* the parameters met in URLs: none, empty, undecodable, extended plans,
\* legacy plans, extended plans with a bad field or component, JSON that is
\* no plan, and text that is no JSON
URLParameters ==
  { NoParameter, EmptyParameter, Undecodable, Encoded(JInvalid) }
    \cup { Encoded(stringifyExtendedPlan(
               [baseYear |-> 2025, projectionYears |-> y,
                initialNetWorth |-> R(100000), investmentReturnRate |-> Q(1, 10),
                components |-> cs])) : y \in {10, 30}, cs \in SharedComponents }
    \cup { Encoded(stringifyPlan([baseYear |-> b, components |-> cs])) :
             b \in BaseYears, cs \in SharedComponents }
    \cup { Encoded(Without(stringifyExtendedPlan(
               [baseYear |-> 2025, projectionYears |-> 10,
                initialNetWorth |-> R(100000), investmentReturnRate |-> Q(1, 10),
                components |-> cs]), k)) :
             k \in {"baseYear", "initialNetWorth", "investmentReturnRate",
                    "components"},
             cs \in SharedComponents }
    \cup { Encoded(d) : d \in MalformedPlans }

\* loadPlanFromURL()
LoadPlanFromURL ==
  /\ pc = "idle"
  /\ call.fn = "none"
  /\ plan.components = <<>>
  /\ \E u \in URLParameters :
       call' = [fn |-> "loadPlanFromURL", encoded |-> u,
                result |-> loadPlanFromURL(u)]
  /\ UNCHANGED <<plan, pc, params, year, netWorth, results>>
  /\ UNCHANGED uiVars

NextSerial ==
  \/ LoadPlanFromURL
  \/ Serialize
  \/ Deserialize
  \/ ValidatePlan
  \/ ValidateMalformed
  \/ ValidateTimeSeries
  \/ DeserializeText

SpecSerial == InitSerial /\ [][NextSerial]_vars

(***************************************************************************)
(* Round trip and accepted categories                                      *)
(***************************************************************************)
\* C19: deserialize(serialize(p)) is structurally equal to p for every plan
\* whose components have category income, spending or investment and whose
\* series are constant, linear, ratio or composite, nested ones included.
RoundTrip ==
  (call.fn = "deserialize" /\ call.json = serialize(plan)) =>
    /\ call.result.ok
    /\ call.result.value = plan

\* the round trip of the plans that hold no investment component
RoundTripWithoutInvestment ==
  (call.fn = "deserialize" /\ call.json = serialize(plan)
     /\ WithoutInvestment(plan) = plan) =>
    /\ call.result.ok
    /\ call.result.value = plan

\* the last component of the data given to validatePlan
lastComponent(data) ==
  LET items == Get(data, "components").items IN items[Len(items)]

CategoriesOfSpec == {"income", "spending", "investment"}

\* C20: validatePlan accepts a component exactly when its category is one
\* of income, spending, investment, its name is a string and its series is
\* valid; any other category is rejected with a ValidationError whose
\* message says "category must be one of".
CategoriesAccepted ==
  (call.fn = "validatePlan" /\ call.data \in ValidateInputs) =>
    LET c == lastComponent(call.data)
        category == Get(c, "category")
        categoryOfSpec == isString(category) /\ category.text \in CategoriesOfSpec
    IN  /\ call.result.ok <=>
             /\ isString(Get(c, "name"))
             /\ categoryOfSpec
             /\ validateTimeSeries(Get(c, "series"), <<"series">>).ok
        /\ (isString(Get(c, "name")) /\ ~categoryOfSpec) =>
             /\ ~call.result.ok
             /\ call.result.error = "ValidationError"
             /\ Head(call.result.message) = "category must be one of: "

\* what VALID_CATEGORIES does give: income and spending are accepted and
\* every category outside the three is rejected with the message
CategoriesAcceptedButInvestment ==
  (call.fn = "validatePlan" /\ call.data \in ValidateInputs
     /\ ~IsText(Get(lastComponent(call.data), "category"), "investment")) =>
    CategoriesAccepted

(***************************************************************************)
(* Rejections                                                              *)
(***************************************************************************)
IsValidation == call.fn \in {"validateTimeSeries", "validatePlan", "deserialize"}

\* the data a validation call was given
inputOf(c) == IF c.fn = "deserialize" THEN c.json ELSE c.data

IndexTexts == {IndexText(i) : i \in 0..7}

\* the value found in data by following a path of property names and indices
RECURSIVE Resolve(_, _)
Resolve(data, path) ==
  IF path = <<>> THEN data
  ELSE
    LET k == Head(path)
        next ==
          IF k \in IndexTexts
          THEN LET i == CHOOSE j \in 0..7 : IndexText(j) = k
               IN  IF data.kind = "array" /\ i < Len(data.items)
                   THEN data.items[i + 1] ELSE JUndefined
          ELSE Get(data, k)
    IN  Resolve(next, Tail(path))

Last(path) == path[Len(path)]

\* the value v found at the path of an error is what the message complains of
Offends(v, message, path) ==
  LET m == Head(message)
  IN  CASE m = "expected object" -> v.kind # "object"
        [] m = "value must be a number" ->
             v.kind # "number" /\ Last(path) = "value"
        [] m = "startValue must be a number" ->
             v.kind # "number" /\ Last(path) = "startValue"
        [] m = "yearlyIncrement must be a number" ->
             v.kind # "number" /\ Last(path) = "yearlyIncrement"
        [] m = "yearlyGrowthRate must be a number" ->
             v.kind # "number" /\ Last(path) = "yearlyGrowthRate"
        [] m = "startYear must be a number" ->
             v.kind # "number" /\ Last(path) = "startYear"
        [] m = "endYear must be a number" ->
             v.kind # "number" /\ Last(path) = "endYear"
        [] m = "baseYear must be a number" ->
             v.kind # "number" /\ Last(path) = "baseYear"
        [] m = "segments must be an array" ->
             v.kind # "array" /\ Last(path) = "segments"
        [] m = "components must be an array" ->
             v.kind # "array" /\ Last(path) = "components"
        [] m = "name must be a string" ->
             v.kind # "string" /\ Last(path) = "name"
        [] m = "category must be one of: " -> Last(path) = "category"
        [] m = "unknown series type: " ->
             /\ ~(v.kind = "string"
                    /\ v.text \in {"constant", "linear", "ratio", "composite"})
             /\ Last(path) = "type"
        [] OTHER -> FALSE

\* a series, a component, a plan with every field of its type
RECURSIVE CompleteSeries(_)
CompleteSeries(x) ==
  CASE x.type = "constant" -> DOMAIN x = {"type", "value"}
    [] x.type = "linear" -> DOMAIN x = {"type", "startValue", "yearlyIncrement"}
    [] x.type = "ratio" -> DOMAIN x = {"type", "startValue", "yearlyGrowthRate"}
    [] x.type = "composite" ->
         /\ DOMAIN x = {"type", "segments"}
         /\ \A i \in 1..Len(x.segments) :
              /\ DOMAIN x.segments[i] = {"series", "startYear", "endYear"}
              /\ CompleteSeries(x.segments[i].series)
    [] OTHER -> FALSE

CompletePlan(p) ==
  /\ DOMAIN p = {"baseYear", "components"}
  /\ \A i \in 1..Len(p.components) :
       /\ DOMAIN p.components[i] = {"name", "category", "series"}
       /\ CompleteSeries(p.components[i].series)

\* data with one of the defects the validators are to reject
Defective(fn, data) ==
  \/ fn = "deserialize" /\ data = JInvalid
  \/ data.kind # "object"
  \/ fn = "validateTimeSeries" /\
       \/ Get(data, "type").kind # "string"
       \/ Get(data, "type").text \notin {"constant", "linear", "ratio", "composite"}
       \/ Get(data, "type").text = "constant" /\ Get(data, "value").kind # "number"
       \/ Get(data, "type").text \in {"linear", "ratio"}
            /\ Get(data, "startValue").kind # "number"
  \/ fn \in {"validatePlan", "deserialize"} /\
       \/ Get(data, "baseYear").kind # "number"
       \/ Get(data, "components").kind # "array"

\* C21: every input rejected by validateTimeSeries, validatePlan or
\* deserialize is rejected by a ValidationError, never by another error and
\* never by a partial plan: a call either returns a complete value or throws
\* a ValidationError; non-objects, unknown series types, missing or
\* non-numeric fields, a missing baseYear, non-array components and invalid
\* JSON are all rejected, and the path of a field error leads to the
\* offending field of the input ("plan.components[0].series.value").
RejectedByValidationError ==
  IsValidation =>
    LET data == inputOf(call)
        res == call.result
    IN  /\ Defective(call.fn, data) => ~res.ok
        /\ res.ok =>
             IF call.fn = "validateTimeSeries" THEN CompleteSeries(res.value)
             ELSE CompletePlan(res.value)
        /\ ~res.ok =>
             /\ res.error = "ValidationError"
             /\ DOMAIN res = {"ok", "error", "message", "path"}
             /\ IF res.path = <<>> THEN res.message = <<"invalid JSON">>
                ELSE /\ Head(res.path) =
                          (IF call.fn = "validateTimeSeries" THEN "series"
                           ELSE "plan")
                     /\ Offends(Resolve(data, Tail(res.path)), res.message,
                                res.path)

\* C21 witness: the plan of the test "includes path in error message" has
\* been rejected at plan.components[0].series.value.
RejectedByValidationErrorWitness ==
  /\ call.fn = "validatePlan"
  /\ call.data \in MalformedPlans
  /\ ~call.result.ok
  /\ call.result.error = "ValidationError"
  /\ call.result.message = <<"value must be a number">>
  /\ call.result.path = <<"plan", "components", "[0]", "series", "value">>

(***************************************************************************)
(* Loading a plan from the URL                                             *)
(***************************************************************************)
\* the parameter holds a legacy plan only: it decodes as FinancialPlan and
\* not as ExtendedPlan
LegacyOnly(encoded) ==
  /\ ~missing(encoded)
  /\ ~decodeExtendedPlanFromURL(encoded).ok
  /\ decodeFromURL(encoded).ok

\* C22: loadPlanFromURL never throws on bad plan data: it returns null when
\* there is no 'plan' parameter and when the parameter cannot be
\* decompressed, parsed or validated in either format; when only the legacy
\* decoding succeeds it returns that plan with projectionYears 20,
\* initialNetWorth 50000 and investmentReturnRate 0.07.
LoadNeverThrows ==
  call.fn = "loadPlanFromURL" =>
    LET u == call.encoded
        res == call.result
    IN  /\ res.ok
        /\ (missing(u) \/ decompressFails(u)) => res.value = JNull
        /\ (~missing(u) /\ ~decompressFails(u) /\ parseThrows(u.json)) =>
             res.value = JNull
        /\ (~missing(u) /\ ~decodeExtendedPlanFromURL(u).ok
              /\ ~decodeFromURL(u).ok) => res.value = JNull
        /\ LegacyOnly(u) =>
             LET legacy == validatePlan(u.json, <<"plan">>).value
             IN  /\ res.value.baseYear = legacy.baseYear
                 /\ res.value.components = legacy.components
                 /\ res.value.projectionYears = 20
                 /\ res.value.initialNetWorth = R(50000)
                 /\ res.value.investmentReturnRate = Q(7, 100)

\* C22 witness: a URL holding a legacy plan of two components has been
\* loaded and completed with the defaults.
LoadNeverThrowsWitness ==
  /\ call.fn = "loadPlanFromURL"
  /\ LegacyOnly(call.encoded)
  /\ call.result.ok
  /\ Len(call.result.value.components) = 2
  /\ call.result.value.baseYear = 2027
  /\ call.result.value.projectionYears = 20

\* a URL whose plan data is bad in both formats has given null
LoadRejectedWitness ==
  /\ call.fn = "loadPlanFromURL"
  /\ call.encoded = Encoded(JInvalid)
  /\ call.result = Returned(JNull)

(***************************************************************************)
(* FIRE fields and the role of investment components in the projection     *)
(***************************************************************************)
\* C26: each record of projectNetWorth also carries fireNumber = 25 * that
\* year's spending, fireProgress = netWorth / fireNumber in percent, and
\* isFIRE, true exactly when netWorth >= fireNumber and spending is
\* positive (zero spending gives fireNumber 0 and isFIRE false).
FireFields ==
  InProjection =>
    \A i \in 1..Len(results) :
      LET rec == results[i]
      IN  /\ {"fireNumber", "fireProgress", "isFIRE"} \subseteq DOMAIN rec
          /\ rec.fireNumber = RMul(R(25), rec.spending)
          /\ rec.spending # R(0) =>
               rec.fireProgress =
                 RMul(R(100), RMul(rec.netWorth, RInv(rec.fireNumber)))
          /\ rec.isFIRE <=> ( /\ ~RLt(rec.netWorth, rec.fireNumber)
                              /\ RLt(R(0), rec.spending) )

\* the net worth after k years from startYear, by the yearly update
RECURSIVE netWorthAfter(_, _, _, _, _)
netWorthAfter(p, initialNetWorth, startYear, k, rate) ==
  IF k = 0 THEN initialNetWorth
  ELSE nextNetWorth(p, netWorthAfter(p, initialNetWorth, startYear, k - 1, rate),
                    startYear + k - 1, rate)

\* C29: with investmentReturnRate 0 the net worth sequence does not depend
\* on the investment components: the plan and the plan without them give
\* records with the same netWorth, income and spending in every year, only
\* the investment field differs.
InvestmentNeutralAtZeroRate ==
  (InProjection /\ params.investmentReturnRate = R(0)) =>
    LET bare == WithoutInvestment(plan)
    IN  \A k \in 1..Len(results) :
          /\ results[k].netWorth =
               netWorthAfter(bare, params.initialNetWorth, params.startYear,
                             k, R(0))
          /\ results[k].income = totalByCategory(bare, "income", results[k].year)
          /\ results[k].spending =
               totalByCategory(bare, "spending", results[k].year)
          /\ totalByCategory(bare, "investment", results[k].year) = R(0)

\* C29 witness: the plan with a 401k of 20000 a year has been projected at
\* rate 0 and shows 50000, 100000, 150000 as it would without the 401k.
InvestmentNeutralWitness ==
  /\ call.fn = "projectNetWorth"
  /\ plan.components = TestPlanComponents
  /\ params.investmentReturnRate = R(0)
  /\ params.initialNetWorth = R(0)
  /\ Len(call.result) = 3
  /\ call.result[3].investment = R(20000)
  /\ call.result[3].netWorth = R(150000)

(***************************************************************************)
(* ui/state: the UI components and the series built from them              *)
(***************************************************************************)
\* the categories of the form (DEFAULT_VALUES has these two)
UICategories == {"income", "spending"}

\* the ids in use: the ids of the components and of their segments
usedIds(components) ==
  {components[i].id : i \in 1..Len(components)} \cup
  UNION {{components[i].segments[j].id :
            j \in 1..Len(components[i].segments)} :
           i \in 1..Len(components)}

\* crypto.randomUUID(): an id that no component or segment has; ids are
\* opaque, so the least unused number stands for any fresh one
generateId(used) ==
  CHOOSE i \in 1..(Cardinality(used) + 1) :
    i \notin used /\ \A j \in 1..(i - 1) : j \in used

\* a UISegment, its fields in the order of the interface
UISegment(id, startYear, endYear, seriesType, value, startValue, incr, rate) ==
  [id |-> id, startYear |-> startYear, endYear |-> endYear,
   seriesType |-> seriesType, value |-> value, startValue |-> startValue,
   yearlyIncrement |-> incr, yearlyGrowthRate |-> rate]

\* a UIComponent, its fields in the order of the interface
UIComponent(id, name, category, seriesType, value, startValue, incr, rate, segs) ==
  [id |-> id, name |-> name, category |-> category,
   seriesType |-> seriesType, value |-> value, startValue |-> startValue,
   yearlyIncrement |-> incr, yearlyGrowthRate |-> rate, segments |-> segs]

DEFAULT_VALUES ==
  [income |-> [name |-> "Income", value |-> R(80000)],
   spending |-> [name |-> "Spending", value |-> R(45000)]]

\* `${defaults.name}${suffix}` with suffix ` ${existingCount + 1}`
suffixed(name, existingCount) ==
  IF existingCount > 0
  THEN name \o " " \o ToString(existingCount + 1)
  ELSE name

createDefaultComponent(category, existingCount, baseYear, projectionYears, used) ==
  LET defaults == DEFAULT_VALUES[category]
      id == generateId(used)
  IN  UIComponent(id, suffixed(defaults.name, existingCount), category,
                  "composite", defaults.value, defaults.value, R(0),
                  Q(3, 100),
                  <<UISegment(generateId(used \cup {id}), baseYear,
                              baseYear + projectionYears, "constant",
                              defaults.value, defaults.value, R(0),
                              Q(3, 100))>>)

\* Math.max(...existingSegments.map(s => s.endYear))
maxEndYear(segments) ==
  CHOOSE e \in {segments[i].endYear : i \in 1..Len(segments)} :
    \A i \in 1..Len(segments) : segments[i].endYear <= e

createDefaultSegment(baseYear, existingSegments, used) ==
  LET lastEnd == IF Len(existingSegments) > 0
                 THEN maxEndYear(existingSegments)
                 ELSE baseYear
  IN  UISegment(generateId(used), lastEnd, lastEnd + 5, "constant",
                R(50000), R(50000), R(0), Q(3, 100))

buildSegmentSeries(seg) ==
  CASE seg.seriesType = "constant" -> constant(seg.value)
    [] seg.seriesType = "linear" ->
         linear(seg.startValue, seg.yearlyIncrement)
    [] seg.seriesType = "ratio" ->
         ratio(seg.startValue, seg.yearlyGrowthRate)

buildTimeSeries(c) ==
  CASE c.seriesType = "constant" -> constant(c.value)
    [] c.seriesType = "linear" -> linear(c.startValue, c.yearlyIncrement)
    [] c.seriesType = "ratio" -> ratio(c.startValue, c.yearlyGrowthRate)
    [] c.seriesType = "composite" ->
         IF Len(c.segments) = 0
         THEN constant(R(0))
         ELSE composite([i \in 1..Len(c.segments) |->
                segment(buildSegmentSeries(c.segments[i]),
                        c.segments[i].startYear, c.segments[i].endYear)])

shouldBeCustomized(components, category) ==
  LET categoryComponents ==
        SelectSeq(components, LAMBDA c : c.category = category)
  IN  \/ Len(categoryComponents) > 1
      \/ \E i \in 1..Len(categoryComponents) :
           \/ categoryComponents[i].seriesType = "composite"
           \/ Len(categoryComponents[i].segments) > 1

buildPlan(st) ==
  [baseYear |-> st.baseYear,
   components |->
     [i \in 1..Len(st.components) |->
        component(st.components[i].name, st.components[i].category,
                  buildTimeSeries(st.components[i]))]]

\* projectNetWorth as a function of its parameters: the loop of
\* ProjectCall, ProjectIter and ProjectReturn run to its end
RECURSIVE projectFrom(_, _, _, _, _, _)
projectFrom(p, nw, y, endYear, investmentReturnRate, done) ==
  IF projectLoopTest(y, endYear)
  THEN LET n == nextNetWorth(p, nw, y, investmentReturnRate)
       IN  projectFrom(p, n, y + 1, endYear, investmentReturnRate,
                       Append(done, YearlyProjection(p, n, y)))
  ELSE done

projectNetWorth(p) ==
  projectFrom(p.plan, p.initialNetWorth, p.startYear, p.endYear,
              p.investmentReturnRate, <<>>)

runProjection(st) ==
  projectNetWorth([plan |-> st.plan,
                   initialNetWorth |-> st.initialNetWorth,
                   startYear |-> st.baseYear,
                   endYear |-> st.baseYear + st.projectionYears,
                   investmentReturnRate |-> st.investmentReturnRate])

\* the segment convertToUIComponent makes of a segment of a composite; a
\* segment holding a composite stays the constant 0 of segBase
convertSegment(seg, id) ==
  LET s == seg.series
  IN  CASE s.type = "constant" ->
             UISegment(id, seg.startYear, seg.endYear, "constant", s.value,
                       s.value, R(0), R(0))
        [] s.type = "linear" ->
             UISegment(id, seg.startYear, seg.endYear, "linear",
                       s.startValue, s.startValue, s.yearlyIncrement, R(0))
        [] s.type = "ratio" ->
             UISegment(id, seg.startYear, seg.endYear, "ratio",
                       s.startValue, s.startValue, R(0), s.yearlyGrowthRate)
        [] OTHER ->
             UISegment(id, seg.startYear, seg.endYear, "constant", R(0),
                       R(0), R(0), R(0))

\* convertToUIComponent(c, baseYear, projectionYears); the ids are firstId
\* for the component and the following numbers for its segments
convertToUIComponentFrom(c, baseYear, projectionYears, firstId) ==
  LET series == c.series
      one(seriesType, value, yearlyIncrement, yearlyGrowthRate) ==
        <<UISegment(firstId + 1, baseYear, baseYear + projectionYears,
                    seriesType, value, value, yearlyIncrement,
                    yearlyGrowthRate)>>
      segments ==
        CASE series.type = "constant" ->
               one("constant", series.value, R(0), R(0))
          [] series.type = "linear" ->
               one("linear", series.startValue, series.yearlyIncrement, R(0))
          [] series.type = "ratio" ->
               one("ratio", series.startValue, R(0), series.yearlyGrowthRate)
          [] series.type = "composite" ->
               [i \in 1..Len(series.segments) |->
                  convertSegment(series.segments[i], firstId + i)]
  IN  UIComponent(firstId, c.name, c.category, "composite", R(0), R(0),
                  R(0), R(0), segments)

\* the default parameters of convertToUIComponent
DefaultBaseYear == 2025
DefaultProjectionYears == 20

\* convertToUIComponent(c): both parameters defaulted, as main calls it
convertToUIComponent(c, firstId) ==
  convertToUIComponentFrom(c, DefaultBaseYear, DefaultProjectionYears,
                           firstId)

createDefaultComponents(baseYear, projectionYears) ==
  <<UIComponent(1, "Salary", "income", "composite", R(80000), R(80000),
                R(0), Q(3, 100),
                <<UISegment(2, baseYear, baseYear + projectionYears, "ratio",
                            R(80000), R(80000), R(0), Q(3, 100))>>),
    UIComponent(3, "Living Expenses", "spending", "composite", R(45000),
                R(45000), R(0), R(0),
                <<UISegment(4, baseYear, baseYear + projectionYears,
                            "constant", R(45000), R(45000), R(0), R(0))>>)>>

(***************************************************************************)
(* ui/state: readInputsFromDOM.  A document is what the inputs of the page *)
(* hold when recalculate reads them: the four basic parameters as parseInt *)
(* and parseFloat return them (0 for an empty or non-numeric input) and    *)
(* the simple-mode inputs of each category, Undefined where the page has   *)
(* none.  The detailed inputs of the components hold what they were        *)
(* rendered with, so reading them changes nothing.                         *)
(***************************************************************************)
Undefined == <<>>

\* typeof document === 'undefined'
NoDocument == [defined |-> FALSE]

Document(baseYear, projectionYears, initialNetWorth, investmentReturnRate, simple) ==
  [defined |-> TRUE, baseYear |-> baseYear,
   projectionYears |-> projectionYears,
   initialNetWorth |-> initialNetWorth,
   investmentReturnRate |-> investmentReturnRate, simple |-> simple]

NoSimpleInputs ==
  [income |-> [amount |-> Undefined, growthRate |-> Undefined],
   spending |-> [amount |-> Undefined, growthRate |-> Undefined]]

\* x || fallback for a number x
orElse(x, fallback) == IF x = 0 THEN fallback ELSE x

\* the simple-mode values applied to the first segment of a component
withSimpleValues(c, simpleData) ==
  IF Len(c.segments) > 0
  THEN LET seg == c.segments[1]
           a == IF simpleData.amount # Undefined
                THEN [seg EXCEPT !.value = simpleData.amount,
                                 !.startValue = simpleData.amount]
                ELSE seg
           g == IF simpleData.growthRate # Undefined
                THEN [a EXCEPT !.yearlyGrowthRate = simpleData.growthRate,
                               !.seriesType =
                                 IF simpleData.growthRate # R(0)
                                 THEN "ratio" ELSE "constant"]
                ELSE a
       IN  [c EXCEPT !.segments = <<g>>]
  ELSE c

readInputsFromDOM(st, document) ==
  IF ~document.defined
  THEN [field \in {} |-> Undefined]
  ELSE [baseYear |-> orElse(document.baseYear, st.baseYear),
        projectionYears |->
          orElse(document.projectionYears, st.projectionYears),
        initialNetWorth |-> document.initialNetWorth,
        investmentReturnRate |->
          RMul(document.investmentReturnRate, Q(1, 100)),
        components |->
          [i \in 1..Len(st.components) |->
             LET c == st.components[i]
                 simpleData == document.simple[c.category]
                 isSimpleMode == c.category \notin st.customizedCategories
             IN  IF isSimpleMode /\ (\/ simpleData.amount # Undefined
                                     \/ simpleData.growthRate # Undefined)
                 THEN withSimpleValues(c, simpleData)
                 ELSE c]]

\* { ...st, ...updates }
spread(st, updates) ==
  [field \in DOMAIN st \cup DOMAIN updates |->
     IF field \in DOMAIN updates THEN updates[field] ELSE st[field]]

(***************************************************************************)
(* ui/state: createState and the operations of the state manager, each as  *)
(* the state it leaves                                                     *)
(***************************************************************************)
rebuildKeepingStale(st) ==
  LET built == [st EXCEPT !.plan = buildPlan(st)]
  IN  [built EXCEPT !.projection = runProjection(built)]

rebuild(st) ==
  LET built == [st EXCEPT !.plan = buildPlan(st)]
  IN  [built EXCEPT !.projection = runProjection(built), !.isStale = FALSE]

createState(initial, currentYear) ==
  LET defaultProjectionYears == DefaultProjectionYears
      st == spread([baseYear |-> currentYear,
                    projectionYears |-> defaultProjectionYears,
                    initialNetWorth |-> R(50000),
                    investmentReturnRate |-> Q(7, 100),
                    components |->
                      createDefaultComponents(currentYear,
                                              defaultProjectionYears),
                    customizedCategories |-> {},
                    showProjection |-> TRUE,
                    isStale |-> FALSE,
                    plan |-> [baseYear |-> currentYear, components |-> <<>>],
                    projection |-> <<>>],
                   initial)
      built == [st EXCEPT !.plan = buildPlan(st)]
  IN  [built EXCEPT !.projection = runProjection(built)]

\* formListeners.forEach(listener => listener()): each call is recorded
\* with what the listener finds in state.isStale
notifyForm(st) ==
  [i \in 1..Len(formListeners) |->
     [channel |-> "form", listener |-> formListeners[i],
      isStale |-> st.isStale]]

notifyResults(st) ==
  [i \in 1..Len(resultsListeners) |->
     [channel |-> "results", listener |-> resultsListeners[i],
      isStale |-> st.isStale]]

notifyAll(st) == notifyForm(st) \o notifyResults(st)

\* if (!state.isStale)
markStaleTestAlways(st) == TRUE

markStaleTest(st) == ~st.isStale

markStale(st) ==
  IF markStaleTest(st) THEN [st EXCEPT !.isStale = TRUE] ELSE st

recalculateWithoutRebuild(st, document) ==
  [spread(st, readInputsFromDOM(st, document)) EXCEPT !.isStale = FALSE]

recalculate(st, document) ==
  rebuild(spread(st, readInputsFromDOM(st, document)))

updateComponentType(st, id, seriesType) ==
  [st EXCEPT
     !.components =
       [i \in 1..Len(st.components) |->
          LET c == st.components[i]
          IN  IF c.id = id THEN [c EXCEPT !.seriesType = seriesType] ELSE c],
     !.isStale = TRUE]

updateSegmentType(st, componentId, segmentId, seriesType) ==
  [st EXCEPT
     !.components =
       [i \in 1..Len(st.components) |->
          LET c == st.components[i]
          IN  IF c.id # componentId
              THEN c
              ELSE [c EXCEPT !.segments =
                      [j \in 1..Len(c.segments) |->
                         IF c.segments[j].id = segmentId
                         THEN [c.segments[j] EXCEPT !.seriesType = seriesType]
                         ELSE c.segments[j]]]],
     !.isStale = TRUE]

addComponent(st, category) ==
  LET existingCount ==
        Len(SelectSeq(st.components, LAMBDA c : c.category = category))
      newComponent ==
        createDefaultComponent(category, existingCount, st.baseYear,
                               st.projectionYears, usedIds(st.components))
  IN  [st EXCEPT !.components = Append(st.components, newComponent),
                 !.isStale = TRUE]

deleteComponent(st, id) ==
  [st EXCEPT !.components = SelectSeq(st.components, LAMBDA c : c.id # id),
             !.isStale = TRUE]

addSegment(st, componentId) ==
  [st EXCEPT
     !.components =
       [i \in 1..Len(st.components) |->
          LET c == st.components[i]
              newSegment == createDefaultSegment(st.baseYear, c.segments,
                                                 usedIds(st.components))
          IN  IF c.id # componentId
              THEN c
              ELSE [c EXCEPT !.segments = Append(c.segments, newSegment)]],
     !.isStale = TRUE]

deleteSegment(st, componentId, segmentId) ==
  [st EXCEPT
     !.components =
       [i \in 1..Len(st.components) |->
          LET c == st.components[i]
          IN  IF c.id # componentId
              THEN c
              ELSE [c EXCEPT !.segments =
                      SelectSeq(c.segments,
                                LAMBDA seg : seg.id # segmentId)]],
     !.isStale = TRUE]

updateSegmentEndYear(st, componentId, segmentId, endYear) ==
  [st EXCEPT
     !.components =
       [i \in 1..Len(st.components) |->
          LET c == st.components[i]
          IN  IF c.id # componentId
              THEN c
              ELSE [c EXCEPT !.segments =
                      [j \in 1..Len(c.segments) |->
                         IF c.segments[j].id # segmentId
                         THEN c.segments[j]
                         ELSE [c.segments[j] EXCEPT !.endYear = endYear]]]]]

loadComponents(st, baseYear, components) ==
  rebuild([st EXCEPT
             !.baseYear = baseYear,
             !.components = components,
             !.customizedCategories =
               {category \in UICategories :
                  shouldBeCustomized(components, category)}])

toggleCustomized(st, category) ==
  [st EXCEPT !.customizedCategories =
     IF category \in st.customizedCategories
     THEN st.customizedCategories \ {category}
     ELSE st.customizedCategories \cup {category}]

setProjectionVisibility(st, visible) ==
  [st EXCEPT !.showProjection = visible]

\* Set.add and Set.delete on a listener set, which keeps insertion order
addListener(listeners, listener) ==
  IF \E i \in 1..Len(listeners) : listeners[i] = listener
  THEN listeners
  ELSE Append(listeners, listener)

deleteListenerNever(listeners, listener) == listeners

deleteListener(listeners, listener) ==
  SelectSeq(listeners, LAMBDA l : l # listener)

(***************************************************************************)
(* The state manager as a state machine: createState, then up to           *)
(* MaxOperations calls of its operations with arguments from small sets.   *)
(***************************************************************************)
\* new Date().getFullYear()
CurrentYears == {2026}

\* the overrides passed to createState; projectionYears is always given, a
\* small number that keeps the projected amounts within the integers
Initials ==
  {[projectionYears |-> 2],
   [baseYear |-> 2027, projectionYears |-> 1, showProjection |-> FALSE]}

UIListeners == {1, 2}

\* an id that no component has ('nonexistent-id')
NoSuchId == 0

ComponentIds(st) ==
  {st.components[i].id : i \in 1..Len(st.components)}

\* the component and segment ids an operation on a segment is called with
SegmentIds(st) ==
  UNION {{<<st.components[i].id, st.components[i].segments[j].id>> :
            j \in 1..Len(st.components[i].segments)} :
           i \in 1..Len(st.components)}

ComponentTypeInputs == {"linear", "composite"}
SegmentTypeInputs == {"linear", "ratio"}
EndYearInputs(st) == {st.baseYear + 1}

Documents ==
  {NoDocument,
   Document(0, 0, R(0), R(10), NoSimpleInputs),
   Document(2027, 1, R(50000), R(0),
            [NoSimpleInputs EXCEPT
               !.income = [amount |-> R(50000), growthRate |-> R(0)]])}

\* the plans loaded into the form
LoadedPlans ==
  {[baseYear |-> 2025,
    components |-> <<component("Salary", "income", ratio(R(80000), Q(1, 10))),
                     component("Rent", "spending", constant(R(20000)))>>],
   [baseYear |-> 2027,
    components |->
      <<component("Salary", "income", linear(R(50000), R(10000))),
        component("Rent", "spending",
          composite(<<segment(constant(R(20000)), 2027, 2028),
                      segment(ratio(R(30000), Q(1, 10)), 2028, 2030)>>))>>]}

\* urlPlan.components.map(c => convertToUIComponent(c)); every component
\* takes its id and those of its segments from a range of its own
RECURSIVE convertAll(_, _)
convertAll(components, firstId) ==
  IF components = <<>>
  THEN <<>>
  ELSE LET c == convertToUIComponent(Head(components), firstId)
       IN  <<c>> \o convertAll(Tail(components),
                               firstId + 1 + Len(c.segments))

InitUI ==
  /\ plan = [baseYear |-> 0, components |-> <<>>]
  /\ pc = "idle"
  /\ params = NoParams
  /\ year = 0
  /\ netWorth = R(0)
  /\ results = <<>>
  /\ \E initial \in Initials, currentYear \in CurrentYears :
       /\ call = [fn |-> "createState"]
       /\ state = createState(initial, currentYear)
  /\ formListeners = <<>>
  /\ resultsListeners = <<>>
  /\ notified = <<>>
  /\ unsubscribed = {}
  /\ steps = 0

\* a listener is registered or unsubscribed; every listener is registered
\* at most once with each of the two functions, so these calls are bounded
Registration(fn) ==
  /\ call' = [fn |-> fn]
  /\ UNCHANGED <<plan, pc, params, year, netWorth, results, steps>>

\* one more operation of the state manager is called
Operation(fn) ==
  /\ steps < MaxOperations
  /\ steps' = steps + 1
  /\ call' = [fn |-> fn]
  /\ UNCHANGED <<plan, pc, params, year, netWorth, results>>

SameListeners == UNCHANGED <<formListeners, resultsListeners, unsubscribed>>

MarkStale ==
  /\ Operation("markStale")
  /\ state' = markStale(state)
  /\ notified' = IF markStaleTest(state) THEN notifyResults(state') ELSE <<>>
  /\ SameListeners

Recalculate ==
  /\ Operation("recalculate")
  /\ \E document \in Documents : state' = recalculate(state, document)
  /\ notified' = notifyAll(state')
  /\ SameListeners

UpdateComponentType ==
  /\ Operation("updateComponentType")
  /\ \E id \in ComponentIds(state), seriesType \in ComponentTypeInputs :
       state' = updateComponentType(state, id, seriesType)
  /\ notified' = notifyAll(state')
  /\ SameListeners

UpdateSegmentType ==
  /\ Operation("updateSegmentType")
  /\ \E ids \in SegmentIds(state), seriesType \in SegmentTypeInputs :
       state' = updateSegmentType(state, ids[1], ids[2], seriesType)
  /\ notified' = notifyAll(state')
  /\ SameListeners

AddComponent ==
  /\ Operation("addComponent")
  /\ \E category \in UICategories : state' = addComponent(state, category)
  /\ notified' = notifyAll(state')
  /\ SameListeners

DeleteComponent ==
  /\ steps < MaxOperations
  /\ steps' = steps + 1
  /\ \E id \in ComponentIds(state) \cup {NoSuchId} :
       /\ call' = [fn |-> "deleteComponent", id |-> id]
       /\ state' = deleteComponent(state, id)
  /\ notified' = notifyAll(state')
  /\ SameListeners
  /\ UNCHANGED <<plan, pc, params, year, netWorth, results>>

AddSegment ==
  /\ Operation("addSegment")
  /\ \E componentId \in ComponentIds(state) :
       state' = addSegment(state, componentId)
  /\ notified' = notifyAll(state')
  /\ SameListeners

DeleteSegment ==
  /\ Operation("deleteSegment")
  /\ \E ids \in SegmentIds(state) :
       state' = deleteSegment(state, ids[1], ids[2])
  /\ notified' = notifyAll(state')
  /\ SameListeners

UpdateSegmentEndYear ==
  /\ Operation("updateSegmentEndYear")
  /\ \E ids \in SegmentIds(state), endYear \in EndYearInputs(state) :
       state' = updateSegmentEndYear(state, ids[1], ids[2], endYear)
  /\ notified' = <<>>
  /\ SameListeners

\* main: convertToUIComponent on every component of the plan, then
\* loadComponents(urlPlan.baseYear, components)
LoadComponents ==
  /\ steps < MaxOperations
  /\ steps' = steps + 1
  /\ \E loaded \in LoadedPlans :
       /\ call' = [fn |-> "loadComponents", plan |-> loaded]
       /\ state' = loadComponents(state, loaded.baseYear,
                                  convertAll(loaded.components, 1))
  /\ notified' = notifyAll(state')
  /\ SameListeners
  /\ UNCHANGED <<plan, pc, params, year, netWorth, results>>

ToggleCustomized ==
  /\ Operation("toggleCustomized")
  /\ \E category \in UICategories :
       state' = toggleCustomized(state, category)
  /\ notified' = notifyForm(state')
  /\ SameListeners

SetProjectionVisibility ==
  /\ Operation("setProjectionVisibility")
  /\ \E visible \in BOOLEAN :
       IF state.showProjection = visible
       THEN /\ UNCHANGED state
            /\ notified' = <<>>
       ELSE /\ state' = setProjectionVisibility(state, visible)
            /\ notified' = notifyAll(state')
  /\ SameListeners

\* the listeners handed to one of the two functions so far
handedOver(channel, listeners) ==
  {listeners[i] : i \in 1..Len(listeners)} \cup
  {u.listener : u \in {v \in unsubscribed : v.channel = channel}}

\* onFormChange(listener), for a listener not handed to it before; the
\* listeners are interchangeable and come in the order of their numbers
OnFormChange ==
  /\ Registration("onFormChange")
  /\ \E listener \in UIListeners :
       /\ listener \notin handedOver("form", formListeners)
       /\ \A l \in UIListeners :
            l < listener => l \in handedOver("form", formListeners)
       /\ formListeners' = addListener(formListeners, listener)
  /\ notified' = <<>>
  /\ UNCHANGED <<state, resultsListeners, unsubscribed>>

OnResultsChange ==
  /\ Registration("onResultsChange")
  /\ \E listener \in UIListeners :
       /\ listener \notin handedOver("results", resultsListeners)
       /\ \A l \in UIListeners :
            l < listener => l \in handedOver("results", resultsListeners)
       /\ resultsListeners' = addListener(resultsListeners, listener)
  /\ notified' = <<>>
  /\ UNCHANGED <<state, formListeners, unsubscribed>>

\* the function returned by onFormChange(listener) is called
UnsubscribeForm ==
  /\ Registration("unsubscribeForm")
  /\ \E i \in 1..Len(formListeners) :
       /\ formListeners' = deleteListener(formListeners, formListeners[i])
       /\ unsubscribed' =
            unsubscribed \cup
              {[channel |-> "form", listener |-> formListeners[i]]}
  /\ notified' = <<>>
  /\ UNCHANGED <<state, resultsListeners>>

UnsubscribeResults ==
  /\ Registration("unsubscribeResults")
  /\ \E i \in 1..Len(resultsListeners) :
       /\ resultsListeners' =
            deleteListener(resultsListeners, resultsListeners[i])
       /\ unsubscribed' =
            unsubscribed \cup
              {[channel |-> "results", listener |-> resultsListeners[i]]}
  /\ notified' = <<>>
  /\ UNCHANGED <<state, formListeners>>

NextUI ==
  \/ MarkStale
  \/ Recalculate
  \/ UpdateComponentType
  \/ UpdateSegmentType
  \/ AddComponent
  \/ DeleteComponent
  \/ AddSegment
  \/ DeleteSegment
  \/ UpdateSegmentEndYear
  \/ LoadComponents
  \/ ToggleCustomized
  \/ SetProjectionVisibility

SpecUI == InitUI /\ [][NextUI]_vars

\* the listeners of a state manager whose components stay as created
NextListeners ==
  \/ OnFormChange
  \/ OnResultsChange
  \/ UnsubscribeForm
  \/ UnsubscribeResults
  \/ MarkStale
  \/ Recalculate
  \/ AddComponent
  \/ ToggleCustomized

SpecListeners == InitUI /\ [][NextListeners]_vars

(***************************************************************************)
(* Claims about the state manager                                          *)
(***************************************************************************)
StructuralChanges ==
  {"addComponent", "deleteComponent", "addSegment", "deleteSegment",
   "updateComponentType", "updateSegmentType"}

Rebuilding == {"recalculate", "loadComponents"}

\* C23: isStale is false right after createState; markStale and every
\* structural change (addComponent, deleteComponent, addSegment,
\* deleteSegment, updateComponentType, updateSegmentType) leave it true;
\* recalculate and loadComponents leave it false, whatever the state they
\* were called in.
StaleTransitions ==
  /\ [](call.fn = "createState" => ~state.isStale)
  /\ [][/\ call'.fn \in StructuralChanges \cup {"markStale"} =>
             state'.isStale
        /\ call'.fn \in Rebuilding => ~state'.isStale]_vars

\* C23 witness: recalculate has been called on a stale state, one with a
\* third component that addComponent appended, and left it not stale.
StaleTransitionsWitness ==
  /\ call.fn = "recalculate"
  /\ steps = 2
  /\ Len(state.components) = 3
  /\ ~state.isStale

\* C25: deleteComponent called with an id that matches no component leaves
\* the component list and the rest of the state, isStale, plan and
\* projection included, as they were.
DeleteUnknownDoesNothing ==
  [][(call'.fn = "deleteComponent" /\ call'.id \notin ComponentIds(state)) =>
       state' = state]_vars

\* plan and projection are those of the current components and parameters
Current(st) ==
  /\ st.plan = buildPlan(st)
  /\ st.projection =
       projectNetWorth([plan |-> buildPlan(st),
                        initialNetWorth |-> st.initialNetWorth,
                        startYear |-> st.baseYear,
                        endYear |-> st.baseYear + st.projectionYears,
                        investmentReturnRate |-> st.investmentReturnRate])

StaleOrCurrent(st) == st.isStale \/ Current(st)

\* C27 as stated: after any sequence of operations, whenever isStale is
\* false, state.plan is the plan built from the current components and
\* baseYear and state.projection is projectNetWorth of that plan over
\* [baseYear, baseYear + projectionYears) with the current initialNetWorth
\* and return rate.
CurrentWhenNotStale == StaleOrCurrent(state)

\* C27, amended: createState, recalculate and loadComponents leave plan and
\* projection current, and every operation leaves the state stale or
\* current when it found it so, except updateSegmentEndYear called on a
\* state that is not stale: it changes the components without setting
\* isStale, and plan and projection lag behind until the next recalculate
\* or loadComponents.
CurrentUnlessSilentlyUpdated ==
  /\ [](call.fn = "createState" => Current(state))
  /\ [][/\ call'.fn \in Rebuilding => Current(state')
        /\ (/\ StaleOrCurrent(state)
            /\ ~(call'.fn = "updateSegmentEndYear" /\ ~state.isStale)) =>
             StaleOrCurrent(state')]_vars

\* C27 witness: loadComponents, called as the second operation with a plan
\* of base year 2027, has left a state that is not stale and whose plan and
\* projection are current.
CurrentWitness ==
  /\ call.fn = "loadComponents"
  /\ steps = 2
  /\ state.baseYear = 2027
  /\ ~state.isStale
  /\ Current(state)

\* C28: loading a plan preserves its values: for every component c of the
\* loaded plan with base year B and every year y of the projected range
\* [B, B + projectionYears), the series built from convertToUIComponent(c)
\* evaluates at y as c.series does.
LoadPreservesValues ==
  call.fn = "loadComponents" =>
    \A i \in 1..Len(call.plan.components) :
      \A y \in state.baseYear..(state.baseYear + state.projectionYears - 1) :
        evaluate(buildTimeSeries(state.components[i]), y, state.baseYear) =
          evaluate(call.plan.components[i].series, y, call.plan.baseYear)

\* the listeners called by the last operation on one channel, in order
notifiedOn(channel) ==
  LET calls == SelectSeq(notified, LAMBDA e : e.channel = channel)
  IN  [k \in 1..Len(calls) |-> calls[k].listener]

\* C24: once the function returned by onFormChange (onResultsChange) has
\* been called, no operation calls that listener again, and the operations
\* that notify a channel call every listener still registered on it.
UnsubscribedNeverNotified ==
  /\ \A k \in 1..Len(notified) :
       [channel |-> notified[k].channel,
        listener |-> notified[k].listener] \notin unsubscribed
  /\ call.fn \in {"recalculate", "addComponent", "toggleCustomized"} =>
       notifiedOn("form") = formListeners
  /\ call.fn \in {"recalculate", "addComponent"} =>
       notifiedOn("results") = resultsListeners

\* C24 witness: addComponent has called the form listener 2 and not the
\* form listener 1, whose unsubscribe function had been called.
UnsubscribedWitness ==
  /\ call.fn = "addComponent"
  /\ [channel |-> "form", listener |-> 1] \in unsubscribed
  /\ notifiedOn("form") = <<2>>

\* C30: markStale called on a state that is not stale sets isStale and then
\* calls every results listener once and no form listener; called on a
\* stale state it changes nothing and calls no listener.
MarkStaleNotifiesOnce ==
  [][call'.fn = "markStale" =>
       /\ \A k \in 1..Len(notified') :
            notified'[k].channel = "results" /\ notified'[k].isStale
       /\ IF state.isStale
          THEN state' = state /\ notified' = <<>>
          ELSE /\ state' = [state EXCEPT !.isStale = TRUE]
               /\ [k \in 1..Len(notified') |-> notified'[k].listener] =
                    resultsListeners]_vars

\* C30 witness: markStale has called the two results listeners, which found
\* isStale true, while a form listener was registered and not called.
MarkStaleWitness ==
  /\ call.fn = "markStale"
  /\ Len(formListeners) > 0
  /\ notified =
       <<[channel |-> "results", listener |-> 1, isStale |-> TRUE],
         [channel |-> "results", listener |-> 2, isStale |-> TRUE]>>

====
